---- MODULE Spec2Model ----
(***************************************************************************)
(* Model of pygento/agento_video.py: the agento:video console command that *)
(* submits image(s) to the Veo API, polls the long-running operation,      *)
(* downloads the video and caches it on disk under a content-derived key.  *)
(*                                                                         *)
(* A Python str (and bytes) is modelled as a sequence of tokens, each      *)
(* token standing for one character of a large alphabet ("zoom", ":",      *)
(* "/", ".jpg").  A hex digest is one token (it stands for 32 hex          *)
(* characters, none of which is ':' or '/').  A path or URL is the text    *)
(* of the path, its separators the "/" tokens.                             *)
(***************************************************************************)
EXTENDS Integers, Sequences, FiniteSets, TLC

VARIABLES
    cfg,        \* the GeminiVideoGenerator attributes set by __init__
    images,     \* image sources of the world: resolved path or URL -> bytes
    files,      \* the video directory: filename -> bytes written so far
    args,       \* per CLI invocation: the parsed arguments
    pc,         \* per CLI invocation: position in main()/the item being processed
    idx,        \* per CLI invocation: index of the image item being processed
    loc,        \* per CLI invocation: the locals of the item being processed
    results,    \* per CLI invocation: main()'s results list
    errors,     \* per CLI invocation: main()'s errors list
    stdout,     \* per CLI invocation: the JSON report printed
    stderr,     \* per CLI invocation: what was written to stderr
    proxy,      \* the request the video API server is handling, and its answer
    hist        \* ghost: what has happened (calls made, bodies downloaded, descriptors returned)

vars == <<cfg, images, files, args, pc, idx, loc, results, errors, stdout, stderr, proxy, hist>>

-----------------------------------------------------------------------------
(* Bounds of the model *)

\* poll_operation_status's max_wait_seconds, scaled down (main passes 300)
MaxWaitSeconds == 2
\* poll_operation_status's poll_interval_seconds, scaled down (main passes 10)
PollIntervalSeconds == 1
\* longest time, in ticks, one poll request may take before it answers
MaxRequestTicks == 1

\* the CLI invocations that may run at the same time (the proxy spawns one
\* per POST)
Procs == {1, 2}

-----------------------------------------------------------------------------
(* Python values *)

\* Python's None where a str is optional
None == <<"\\None">>

\* truthiness of an Optional[str] / bytes value
Truthy(s) == s # None /\ s # <<>>

RECURSIVE Flatten(_)
\* the text of a token sequence, as one string
Flatten(s) == IF s = <<>> THEN "" ELSE Head(s) \o Flatten(Tail(s))

RECURSIVE rstrip(_, _)
\* str.rstrip(c)
rstrip(s, c) ==
    IF s # <<>> /\ s[Len(s)] = c THEN rstrip(SubSeq(s, 1, Len(s) - 1), c) ELSE s

RECURSIVE lstrip(_, _)
\* str.lstrip(c)
lstrip(s, c) == IF s # <<>> /\ s[1] = c THEN lstrip(Tail(s), c) ELSE s

\* str.strip(): whitespace removed at both ends
strip(s) == lstrip(rstrip(s, " "), " ")

RECURSIVE JoinTokens(_, _)
\* sep.join(list) for a list of one-token strings
JoinTokens(list, sep) ==
    IF list = <<>> THEN <<>>
    ELSE IF Len(list) = 1 THEN <<list[1]>>
    ELSE <<list[1], sep>> \o JoinTokens(Tail(list), sep)

\* str.startswith(pre)
StartsWith(s, pre) == Len(s) >= Len(pre) /\ SubSeq(s, 1, Len(pre)) = pre

\* `sub in s` for str
Contains(s, sub) ==
    \E i \in 0..(Len(s) - Len(sub)) : SubSeq(s, i + 1, i + Len(sub)) = sub

\* str.lower(), token by token
LowerTok(t) == CASE t = "Image1" -> "image1" [] t = "A" -> "a" [] OTHER -> t
lower(s) == [i \in 1..Len(s) |-> LowerTok(s[i])]

\* hashlib.md5(data).hexdigest(), the digest modelled as collision-free: the
\* token spells its own preimage
md5(data) == << "md5(" \o Flatten(data) \o ")" >>

\* a value returned / an exception raised
Ok(v) == [ok |-> TRUE, val |-> v]
Raise(type, msg) == [ok |-> FALSE, type |-> type, msg |-> msg]

-----------------------------------------------------------------------------
(* pathlib *)

\* Path.is_absolute()
IsAbsolute(p) == p # <<>> /\ p[1] = "/"

\* Path / str
PathJoin(a, b) ==
    IF IsAbsolute(b) THEN b
    ELSE IF a = <<"/">> THEN a \o b ELSE a \o <<"/">> \o b

\* position of the last "/" of p, 0 when there is none
LastSlash(p) ==
    LET I == {i \in 1..Len(p) : p[i] = "/"}
    IN  IF I = {} THEN 0 ELSE CHOOSE i \in I : \A j \in I : j <= i

\* Path.name
PathName(p) == SubSeq(p, LastSlash(p) + 1, Len(p))

\* the suffix tokens of the alphabet
Suffixes == {".jpg", ".png", ".mp4"}

\* Path.stem: the name without its last suffix
PathStem(p) ==
    LET n == PathName(p)
    IN  IF Len(n) > 1 /\ n[Len(n)] \in Suffixes THEN SubSeq(n, 1, Len(n) - 1) ELSE n

-----------------------------------------------------------------------------
(* GeminiVideoGenerator.__init__ and its path helpers *)

\* the generator's attributes for constructor arguments base_path, base_url
\* and save_path, with none of the environment variables set
GeneratorInit(base_path, base_url, save_path) ==
    LET vd == IF Truthy(save_path)
              THEN PathJoin(base_path, save_path)
              ELSE base_path \o <<"/", "pub", "/", "media", "/", "video">>
        bu == IF Truthy(base_url) THEN rstrip(base_url, "/") ELSE None
    IN  [base_path |-> base_path, video_dir |-> vd, base_url |-> bu]

\* _get_relative_video_path: the path of the file relative to base_path, or
\* the bare filename when the video directory is not under base_path
_get_relative_video_path(c, filename) ==
    LET video_file_path == PathJoin(c.video_dir, filename)
        pre == c.base_path \o <<"/">>
    IN  IF StartsWith(video_file_path, pre)
        THEN SubSeq(video_file_path, Len(pre) + 1, Len(video_file_path))
        ELSE filename

\* is_url
is_url(p) == StartsWith(p, <<"http://">>) \/ StartsWith(p, <<"https://">>)

\* resolve_image_path, for a path that is not a URL
resolve_image_path(c, image_path) ==
    IF IsAbsolute(image_path) THEN image_path
    ELSE LET q == IF StartsWith(image_path, <<"pub", "/", "media", "/">>)
                  THEN SubSeq(image_path, 5, Len(image_path)) ELSE image_path
         IN  c.base_path \o <<"/", "pub", "/", "media", "/">> \o lstrip(q, "/")

-----------------------------------------------------------------------------
(* Image sources *)

\* download_image_from_url: the body served at url, or the download failure
download_image_from_url(world, url) ==
    IF url \in DOMAIN world THEN Ok(world[url])
    ELSE Raise("RuntimeError", <<"Failed to download image from URL ">> \o url)

\* _load_image: (image_data, source_path_str), or the exception raised
_load_image(c, world, image_path) ==
    IF is_url(image_path)
    THEN LET r == download_image_from_url(world, image_path)
         IN  IF r.ok THEN Ok([image_data |-> r.val, source_path_str |-> image_path]) ELSE r
    ELSE LET source_path == resolve_image_path(c, image_path)
         IN  IF source_path \notin DOMAIN world
             THEN Raise("FileNotFoundError", <<"Source image not found: ">> \o image_path)
             ELSE Ok([image_data |-> world[source_path], source_path_str |-> source_path])

\* urlparse(url).path: from the first "/" after the scheme and host on
UrlPath(url) ==
    LET I == {i \in 2..Len(url) : url[i] = "/"}
    IN  IF I = {} THEN <<>>
        ELSE SubSeq(url, CHOOSE i \in I : \A j \in I : i <= j, Len(url))

\* _get_image_reference_name
_get_image_reference_name(image_path) ==
    IF is_url(image_path)
    THEN LET stem == PathStem(UrlPath(image_path))
         IN  IF stem = <<>> THEN <<"image">> ELSE stem
    ELSE LET stem == PathStem(image_path)
         IN  IF stem = <<>> THEN PathName(image_path) ELSE stem

\* the keywords that mark a prompt as already referring to its images
ReferenceKeywords(image1_name, image2_name) ==
    { <<"image1">>, <<"image2">>, <<"first", " ", "image">>, <<"second", " ", "image">>,
      <<"image", " ", "1">>, <<"image", " ", "2">>, lower(image1_name), lower(image2_name) }

\* _enhance_prompt_with_image_references, were the prompt never given a context
_enhance_prompt_unchanged(prompt, image_path, second_image_path, auto_reference) ==
    prompt

\* _enhance_prompt_with_image_references
_enhance_prompt_with_image_references(prompt, image_path, second_image_path, auto_reference) ==
    IF ~auto_reference \/ ~Truthy(second_image_path) THEN prompt
    ELSE LET image1_name == _get_image_reference_name(image_path)
             image2_name == _get_image_reference_name(second_image_path)
             has_reference == \E k \in ReferenceKeywords(image1_name, image2_name) :
                                  Contains(lower(prompt), k)
         IN  IF has_reference THEN prompt
             ELSE <<"Context: You have two images - '">> \o image1_name
                  \o <<"' (image1/first image) and '">> \o image2_name
                  \o <<"' (image2/second image). ">> \o strip(prompt)

\* the prompt generate_video_from_image hashes and submits
FinalPrompt(prompt, image_path, second_image_path, auto_reference, silent_video) ==
    LET enhanced == _enhance_prompt_with_image_references(
                        prompt, image_path, second_image_path, auto_reference)
    IN  IF silent_video THEN strip(enhanced) \o <<" ", "silent video">> ELSE enhanced

-----------------------------------------------------------------------------
(* Cache key and cache lookup *)

\* get_image_hash, were it to hash the path given instead of the bytes there
get_image_hash_of_path(world, path) ==
    IF path \in DOMAIN world THEN Ok(md5(path))
    ELSE Raise("FileNotFoundError", <<"Image not found: ">> \o path)

\* generate_cache_key.get_image_hash: the digest of the bytes now at path
get_image_hash(world, path) ==
    IF is_url(path)
    THEN LET r == download_image_from_url(world, path)
         IN  IF r.ok THEN Ok(md5(r.val)) ELSE r
    ELSE IF path \notin DOMAIN world
         THEN Raise("FileNotFoundError", <<"Image not found: ">> \o path)
         ELSE Ok(md5(world[path]))

\* the f-string, were the aspect ratio left out of it
CacheData_without_ratio(image_hash, second_image_hash, prompt, aspect_ratio) ==
    image_hash \o <<":">> \o second_image_hash \o <<":">> \o prompt

\* the f-string "{image_hash}:{second_image_hash}:{prompt}:{aspect_ratio}"
CacheData(image_hash, second_image_hash, prompt, aspect_ratio) ==
    image_hash \o <<":">> \o second_image_hash \o <<":">> \o prompt \o <<":">> \o aspect_ratio

\* generate_cache_key, were the fields joined without the second image's slot
\* when there is no second image
generate_cache_key_three_fields(world, image_path, prompt, aspect_ratio, second_image_path) ==
    LET h1 == get_image_hash(world, image_path)
        h2 == IF Truthy(second_image_path)
              THEN get_image_hash(world, second_image_path) ELSE Ok(<<>>)
    IN  IF ~h1.ok THEN h1
        ELSE IF ~h2.ok THEN h2
        ELSE IF Truthy(second_image_path)
        THEN Ok(md5(CacheData(h1.val, h2.val, prompt, aspect_ratio)))
        ELSE Ok(md5(h1.val \o <<":">> \o prompt \o <<":">> \o aspect_ratio))

\* generate_cache_key, were a second image with no bytes treated as absent
generate_cache_key_skip_empty(world, image_path, prompt, aspect_ratio, second_image_path) ==
    LET h1 == get_image_hash(world, image_path)
        h2 == IF Truthy(second_image_path)
              THEN LET h == get_image_hash(world, second_image_path)
                   IN  IF h.ok /\ h.val = md5(<<>>) THEN Ok(<<>>) ELSE h
              ELSE Ok(<<>>)
    IN  IF ~h1.ok THEN h1
        ELSE IF ~h2.ok THEN h2
        ELSE Ok(md5(CacheData(h1.val, h2.val, prompt, aspect_ratio)))

\* generate_cache_key
generate_cache_key(world, image_path, prompt, aspect_ratio, second_image_path) ==
    LET h1 == get_image_hash(world, image_path)
        h2 == IF Truthy(second_image_path)
              THEN get_image_hash(world, second_image_path) ELSE Ok(<<>>)
    IN  IF ~h1.ok THEN h1
        ELSE IF ~h2.ok THEN h2
        ELSE Ok(md5(CacheData(h1.val, h2.val, prompt, aspect_ratio)))

\* the name of the video file of a cache key
VideoFilename(cache_key) == <<"veo_">> \o cache_key \o <<".mp4">>

\* the public URL of a video file: under the base URL when there is one,
\* root-relative otherwise
VideoUrl(c, filename) ==
    LET relative_path == _get_relative_video_path(c, filename)
    IN  IF Truthy(c.base_url)
        THEN rstrip(c.base_url, "/") \o <<"/">> \o relative_path
        ELSE <<"/">> \o relative_path

\* Python's None where a dict is optional
NoneDict == [none |-> TRUE]
IsNone(d) == "none" \in DOMAIN d

\* get_cached_video, were it to test the video directory, not the file
get_cached_video_dir_exists(c, dir, cache_key) ==
    LET filename == VideoFilename(cache_key)
        video_path == PathJoin(c.video_dir, filename)
    IN  IF DOMAIN dir # {}
        THEN [fromCache |-> TRUE, videoUrl |-> VideoUrl(c, filename),
              videoPath |-> video_path, status |-> "completed"]
        ELSE NoneDict

\* get_cached_video: the descriptor of the cached file, or None
get_cached_video(c, dir, cache_key) ==
    LET filename == VideoFilename(cache_key)
        video_path == PathJoin(c.video_dir, filename)
    IN  IF filename \in DOMAIN dir
        THEN [fromCache |-> TRUE, videoUrl |-> VideoUrl(c, filename),
              videoPath |-> video_path, status |-> "completed"]
        ELSE NoneDict

-----------------------------------------------------------------------------
(* GeminiVideoService: the remote operation and its responses *)

\* the API key the invocations are given
ApiKey == <<"SECRET">>

\* the time unit of the model, a tick, is the 0.5 s sleep_interval of the
\* progress display
TicksPerSecond == 2
MaxWaitTicks == MaxWaitSeconds * TicksPerSecond
PollIntervalTicks == PollIntervalSeconds * TicksPerSecond

\* dict.get(key, default)
Get(d, key, default) == IF key \in DOMAIN d THEN d[key] ELSE default

\* video locators the remote service may report
UriApi == <<"https://", "generativelanguage.googleapis.com", "/", "files", "/", "f1", ":download", "?", "alt=media">>
UriCdn == <<"https://", "cdn.example", "/", "v", ".mp4">>
\* on another host, with the API host's name in its path
UriMirror == <<"https://", "cdn.example", "/", "generativelanguage.googleapis.com", "/", "v", ".mp4">>
\* on the API host, with a key parameter already
UriKeyed == <<"https://", "generativelanguage.googleapis.com", "/", "files", "/", "f2", "?", "key=", "k2">>
\* on the API host, with a parameter apikey and no parameter key
UriToken == <<"https://", "generativelanguage.googleapis.com", "/", "files", "/", "f3", "?", "api", "key=", "1">>

Sample(uri) == [video |-> [uri |-> uri]]
GenRes(g) == [done |-> TRUE, response |-> [generateVideoResponse |-> g]]
ReasonList(l) == [isList |-> TRUE, v |-> l]
ReasonStr(t) == [isList |-> FALSE, v |-> t]

\* the bodies of poll responses that do not report done
RunningResponses == { [name |-> "op"], [name |-> "op", done |-> FALSE] }

\* the bodies of completed poll responses with a video in the success path
SuccessResponses ==
    { GenRes([generatedSamples |-> <<Sample(UriApi)>>]),
      GenRes([generatedSamples |-> <<Sample(UriCdn), Sample(UriApi)>>]),
      GenRes([generatedSamples |-> <<Sample(UriMirror)>>]),
      GenRes([generatedSamples |-> <<Sample(UriKeyed)>>]),
      GenRes([generatedSamples |-> <<Sample(UriToken)>>]) }

\* the bodies of completed poll responses that report a safety-filter block
FilteredResponses ==
    { GenRes([raiMediaFilteredReasons |-> ReasonList(<<"audio", "celebrity">>),
              raiMediaFilteredCount |-> 1]),
      GenRes([raiMediaFilteredReasons |-> ReasonList(<<"audio">>)]),
      GenRes([raiMediaFilteredReasons |-> ReasonStr(<<"blocked">>)]),
      GenRes([raiMediaFilteredReasons |-> ReasonList(<<"audio">>),
              raiMediaFilteredCount |-> 1,
              generatedSamples |-> <<Sample(UriCdn)>>]) }

\* the bodies of completed poll responses with neither
EmptyResponses ==
    { [name |-> "op", done |-> TRUE],
      [done |-> TRUE, error |-> [code |-> 13, message |-> "internal"]],
      [done |-> TRUE, response |-> [other |-> TRUE]],
      GenRes([generatedSamples |-> <<>>]),
      GenRes([other |-> TRUE]),
      GenRes([generatedSamples |-> <<[other |-> TRUE]>>]),
      GenRes([generatedSamples |-> <<[video |-> [other |-> TRUE]]>>]) }

PollResponses == RunningResponses \cup SuccessResponses \cup FilteredResponses \cup EmptyResponses

\* the message of the safety-filter RuntimeError
FilterMessage(reasons_str, filtered_count) ==
    <<"Video generation was blocked by safety filters. ", "Reason(s): ">> \o reasons_str
    \o <<". ", "Filtered count: ", ToString(filtered_count), ". ",
         "Suggestions: ...", "You have not been charged for this attempt.">>

NoUriMessage == <<"No video URI found in completed operation response">>

\* the same, were the success path tried before the filter block
ExtractFromGenRes_samples_first(gen_res) ==
    IF "generatedSamples" \in DOMAIN gen_res /\ gen_res.generatedSamples # <<>>
       /\ "video" \in DOMAIN gen_res.generatedSamples[1]
       /\ "uri" \in DOMAIN gen_res.generatedSamples[1].video
    THEN Ok(gen_res.generatedSamples[1].video.uri)
    ELSE IF "raiMediaFilteredReasons" \in DOMAIN gen_res
    THEN LET reasons == gen_res.raiMediaFilteredReasons
             reasons_str == IF reasons.isList
                            THEN JoinTokens(reasons.v, ", ") ELSE reasons.v
             filtered_count == Get(gen_res, "raiMediaFilteredCount",
                                   IF reasons.isList THEN Len(reasons.v) ELSE 1)
         IN  Raise("RuntimeError", FilterMessage(reasons_str, filtered_count))
    ELSE Raise("RuntimeError", NoUriMessage)

\* the same, were the last generated sample taken, not the first
ExtractFromGenRes_last_sample(gen_res) ==
    IF "raiMediaFilteredReasons" \in DOMAIN gen_res
    THEN LET reasons == gen_res.raiMediaFilteredReasons
             reasons_str == IF reasons.isList
                            THEN JoinTokens(reasons.v, ", ") ELSE reasons.v
             filtered_count == Get(gen_res, "raiMediaFilteredCount",
                                   IF reasons.isList THEN Len(reasons.v) ELSE 1)
         IN  Raise("RuntimeError", FilterMessage(reasons_str, filtered_count))
    ELSE IF "generatedSamples" \in DOMAIN gen_res /\ gen_res.generatedSamples # <<>>
         THEN LET sample == gen_res.generatedSamples[Len(gen_res.generatedSamples)]
              IN  IF "video" \in DOMAIN sample /\ "uri" \in DOMAIN sample.video
                  THEN Ok(sample.video.uri)
                  ELSE Raise("RuntimeError", NoUriMessage)
         ELSE Raise("RuntimeError", NoUriMessage)

\* extract_video_uri, after the response was found to hold generateVideoResponse
ExtractFromGenRes(gen_res) ==
    IF "raiMediaFilteredReasons" \in DOMAIN gen_res
    THEN LET reasons == gen_res.raiMediaFilteredReasons
             reasons_str == IF reasons.isList
                            THEN JoinTokens(reasons.v, ", ") ELSE reasons.v
             filtered_count == Get(gen_res, "raiMediaFilteredCount",
                                   IF reasons.isList THEN Len(reasons.v) ELSE 1)
         IN  Raise("RuntimeError", FilterMessage(reasons_str, filtered_count))
    ELSE IF "generatedSamples" \in DOMAIN gen_res /\ gen_res.generatedSamples # <<>>
         THEN LET sample == gen_res.generatedSamples[1]
              IN  IF "video" \in DOMAIN sample /\ "uri" \in DOMAIN sample.video
                  THEN Ok(sample.video.uri)
                  ELSE Raise("RuntimeError", NoUriMessage)
         ELSE Raise("RuntimeError", NoUriMessage)

\* extract_video_uri, were a remote error of the operation reported as such
extract_video_uri_remote_error(operation_data) ==
    IF "error" \in DOMAIN operation_data
    THEN Raise("RuntimeError", <<"Video generation failed: ", operation_data.error.message>>)
    ELSE IF "response" \in DOMAIN operation_data
            /\ "generateVideoResponse" \in DOMAIN operation_data.response
    THEN ExtractFromGenRes(operation_data.response.generateVideoResponse)
    ELSE Raise("RuntimeError", NoUriMessage)

\* extract_video_uri
extract_video_uri(operation_data) ==
    IF "response" \in DOMAIN operation_data
       /\ "generateVideoResponse" \in DOMAIN operation_data.response
    THEN ExtractFromGenRes(operation_data.response.generateVideoResponse)
    ELSE Raise("RuntimeError", NoUriMessage)

\* the host of the generative-language API
ApiHost == "generativelanguage.googleapis.com"

\* the host of an absolute URL: what follows the scheme
Host(url) == url[2]

\* the URL has a query parameter named key
HasKeyParam(url) ==
    \E i \in 2..Len(url) : url[i] = "key=" /\ url[i - 1] \in {"?", "&"}

\* download_video: the headers of the request, whatever the URI
DownloadHeaders(api_key) == [x_goog_api_key |-> api_key]

\* where the files of the API host are stored
UriStore == <<"https://", "storage.example", "/", "f1", ".mp4">>

\* download_video, allow_redirects=True: the URLs requests.get goes on to
\* after the first; the API host answers a download with a 302 to the
\* store, and a redirected request keeps the headers of the first, the
\* library dropping none but Authorization when the host changes
Redirects(url) ==
    IF Host(url) = ApiHost /\ Contains(url, <<":download">>) THEN <<UriStore>> ELSE << >>

\* download_video: the URL requested for video_uri
DownloadUrl(video_uri, api_key) ==
    IF Contains(video_uri, <<"generativelanguage.googleapis.com">>)
       /\ ~Contains(video_uri, <<"key=">>)
    THEN video_uri \o (IF Contains(video_uri, <<"?">>) THEN <<"&">> ELSE <<"?">>)
         \o <<"key=">> \o api_key
    ELSE video_uri

-----------------------------------------------------------------------------
(* The world the invocations run in *)

BasePath == <<"/", "m">>
Media(name) == BasePath \o <<"/", "pub", "/", "media", "/">> \o name

\* image paths and URLs as given on the command line
RelA == <<"a", ".jpg">>
PubA == <<"pub", "/", "media", "/", "a", ".jpg">>
AbsB == <<"/", "t", "/", "b", ".jpg">>
UrlA == <<"http://", "h", "/", "a", ".jpg">>
RelC == <<"c", ".jpg">>
RelE == <<"e", ".png">>
RelX == <<"x", ".jpg">>
UrlX == <<"https://", "h", "/", "x", ".jpg">>

\* what is stored where: a.jpg, /t/b.jpg and the URL hold the same bytes,
\* c.jpg other bytes, e.png is empty, x.jpg and the second URL do not exist
World ==
    (Media(RelA) :> <<"ff">>) @@ (AbsB :> <<"ff">>) @@ (UrlA :> <<"ff">>)
    @@ (Media(RelC) :> <<"00">>) @@ (Media(RelE) :> <<>>)

\* the constructor arguments of the deployments considered
Deployments ==
    { GeneratorInit(BasePath, None, None),
      GeneratorInit(BasePath, <<"https://", "shop", "/">>, <<"/", "srv", "/", "video">>),
      GeneratorInit(BasePath, <<"/">>, <<"media", "/", "v">>) }

\* the video an operation produces, in the chunks it is written in
VideoOf(operationName) == << Flatten(operationName) \o "#1", Flatten(operationName) \o "#2" >>

-----------------------------------------------------------------------------
(* What an invocation prints *)

\* json.dumps of a string made of these tokens: quotes are escaped
JsonStr(str) ==
    <<"\"">> \o [i \in 1..Len(str) |->
                   IF str[i] = "<video controls ...><source src=\""
                   THEN "<video controls ...><source src=\\\""
                   ELSE IF str[i] = "\" type=\"video/mp4\">...</video>"
                   THEN "\\\" type=\\\"video/mp4\\\">...</video>"
                   ELSE str[i]]
    \o <<"\"">>

\* json.dumps of the result main() prints when it stops before the loop
JsonFailure(msg) ==
    <<"{", "\"success\": false", ", ", "\"error\": ">> \o JsonStr(msg) \o <<"}">>

\* json.dumps of an item of the errors list
JsonError(e) ==
    <<"{", "\"imagePath\": ">> \o JsonStr(e.imagePath)
    \o <<", ", "\"success\": false", ", ", "\"error\": ">> \o JsonStr(e.error) \o <<"}">>

\* json.dumps of an item of the results list
JsonResult(r) ==
    <<"{", "\"imagePath\": ">> \o JsonStr(r.imagePath)
    \o <<", ", "\"success\": true", ", ", "\"status\": ">> \o JsonStr(<<r.status>>)
    \o (IF "videoUrl" \in DOMAIN r
        THEN <<", ", "\"videoUrl\": ">> \o JsonStr(r.videoUrl)
             \o <<", ", "\"videoPath\": ">> \o JsonStr(r.videoPath)
        ELSE << >>)
    \o (IF "cached" \in DOMAIN r THEN <<", ", "\"cached\": true">> ELSE << >>)
    \o (IF "embedUrl" \in DOMAIN r
        THEN <<", ", "\"embedUrl\": ">> \o JsonStr(r.embedUrl) ELSE << >>)
    \o (IF "operationName" \in DOMAIN r
        THEN <<", ", "\"operationName\": ">> \o JsonStr(r.operationName)
             \o <<", ", "\"message\": ">>
             \o JsonStr(<<"Video generation started. Use --sync option to wait for completion.">>)
        ELSE << >>)
    \o (IF "secondImagePath" \in DOMAIN r
        THEN <<", ", "\"secondImagePath\": ">> \o JsonStr(r.secondImagePath) ELSE << >>)
    \o <<"}">>

RECURSIVE JsonResults(_)
\* json.dumps of the results list
JsonResults(list) ==
    IF list = << >> THEN << >>
    ELSE JsonResult(Head(list)) \o (IF Len(list) > 1 THEN <<", ">> ELSE << >>)
         \o JsonResults(Tail(list))

RECURSIVE JsonErrors(_)
\* json.dumps of the errors list
JsonErrors(list) ==
    IF list = << >> THEN << >>
    ELSE JsonError(Head(list)) \o (IF Len(list) > 1 THEN <<", ">> ELSE << >>)
         \o JsonErrors(Tail(list))

\* the final result, were a batch to count as a success once an item succeeded
JsonReport_success_if_any(a, res, errs) ==
    IF Len(a.image_path) = 1
    THEN IF res # << >> THEN JsonResult(res[1]) ELSE JsonError(errs[1])
    ELSE <<"{", "\"success\": ", IF res # << >> THEN "true" ELSE "false", ", ",
           "\"total\": ", ToString(Len(a.image_path)), ", ",
           "\"succeeded\": ", ToString(Len(res)), ", ",
           "\"failed\": ", ToString(Len(errs)), ", ", "\"results\": ", "[">>
         \o JsonResults(res) \o <<"]", ", ", "\"errors\": ", "[">>
         \o JsonErrors(errs) \o <<"]", "}">>

\* json.dumps of the final result of main(): the item itself for a single
\* image, the summary for several
JsonReport(a, res, errs) ==
    IF Len(a.image_path) = 1
    THEN IF res # << >> THEN JsonResult(res[1]) ELSE JsonError(errs[1])
    ELSE <<"{", "\"success\": ", IF errs = << >> THEN "true" ELSE "false", ", ",
           "\"total\": ", ToString(Len(a.image_path)), ", ",
           "\"succeeded\": ", ToString(Len(res)), ", ",
           "\"failed\": ", ToString(Len(errs)), ", ", "\"results\": ", "[">>
         \o JsonResults(res) \o <<"]", ", ", "\"errors\": ", "[">>
         \o JsonErrors(errs) \o <<"]", "}">>

\* the debug output of --verbose while the images are loaded and the prompt
\* is built, one token for each block of print calls
DebugLoad(ok1, has2, ok2, silent_video) ==
    <<"[Image Processing] Loading:">>
    \o (IF ok1 /\ has2 THEN <<"[Image Processing] Loading:">> ELSE << >>)
    \o (IF ok1 /\ (has2 => ok2) THEN <<"[Prompt Processing]">> ELSE << >>)
    \o (IF ok1 /\ (has2 => ok2) /\ silent_video THEN <<"Added 'silent video':">> ELSE << >>)

\* what one answered poll writes to stderr: the debug output of --verbose,
\* or the last line of the progress display; the spinner frames, which
\* rewrite the current line, are left out
PollOutput(verbose, done) ==
    IF verbose
    THEN <<"[Poll] Status Code:", "[Poll] Raw API Response:">>
         \o (IF done THEN <<"[Poll Complete] Final Response:">> ELSE << >>)
    ELSE IF done THEN <<"\r", "Video generation complete!", "\n">> ELSE << >>

\* no request is being handled by the video API server
NoProxy == [phase |-> "none"]

-----------------------------------------------------------------------------
(* State *)

\* the locals of an item before generate_video_from_image has run
InitLoc ==
    [ image_data |-> None, second_image_data |-> None,
      source_path_str |-> None, second_source_path_str |-> None,
      final_prompt |-> None, cache_key |-> None, operationName |-> None,
      clock |-> 0, data |-> NoneDict, video_uri |-> None, request_url |-> None,
      request_headers |-> NoneDict, redirects |-> << >>,
      video_content |-> None, wpos |-> 0,
      payload |-> NoneDict,
      state |-> "Idle", calls |-> {} ]

TypeOK ==
    /\ pc \in [Procs -> {"main", "item", "hash", "lookup", "submit", "poll", "sleep",
                         "download", "open", "write", "report", "exit0", "exit1",
                         "off", "killed"}]
    /\ idx \in [Procs -> 1..3]
    /\ \A p \in Procs : loc[p].clock \in 0..(MaxWaitTicks + 1)
    /\ \A p \in Procs : loc[p].state \in
           {"Idle", "Loaded", "Cached", "Submitted", "Polling", "Downloading", "Saving",
            "Succeeded", "Filtered", "Failed", "TimedOut", "PollError", "DownloadError",
            "EmptyResult", "SubmitError", "LoadError", "Processing"}

InitWith(ArgSet) ==
    /\ cfg \in Deployments
    /\ images = World
    /\ files = << >>
    /\ args \in [Procs -> ArgSet]
    /\ pc = [p \in Procs |-> "main"]
    /\ idx = [p \in Procs |-> 1]
    /\ loc = [p \in Procs |-> InitLoc]
    /\ results = [p \in Procs |-> << >>]
    /\ errors = [p \in Procs |-> << >>]
    /\ stdout = [p \in Procs |-> << >>]
    /\ stderr = [p \in Procs |-> << >>]
    /\ proxy = NoProxy
    /\ hist = [bodies |-> {}, created |-> {}, hits |-> {}]

\* the arguments of an invocation
Args(image_path, second_image, prompt, aspect_ratio, silent_video, sync) ==
    [ api_key |-> ApiKey, image_path |-> image_path, second_image |-> second_image,
      prompt |-> prompt, aspect_ratio |-> aspect_ratio, silent_video |-> silent_video,
      sync |-> sync, no_auto_reference |-> FALSE, verbose |-> FALSE ]

ZoomIn == <<"zoom", " ", "in">>
R169 == <<"16", ":", "9">>

\* the invocations considered when two run concurrently
MainArgs ==
    { Args(<<RelA>>, None, ZoomIn, R169, FALSE, TRUE),
      Args(<<UrlA>>, None, ZoomIn, R169, FALSE, TRUE),
      Args(<<RelC>>, None, ZoomIn, R169, FALSE, TRUE),
      Args(<<PubA, AbsB>>, None, ZoomIn, R169, FALSE, TRUE) }

\* the poll responses considered when two run concurrently
ConcurrentResponses ==
    { [name |-> "op", done |-> FALSE],
      GenRes([generatedSamples |-> <<Sample(UriApi)>>]),
      GenRes([raiMediaFilteredReasons |-> ReasonList(<<"audio">>)]) }

\* the invocations considered when one runs on its own
CliArgs ==
    { Args(<<RelA>>, None, ZoomIn, R169, FALSE, TRUE),
      Args(<<UrlA, PubA>>, None, ZoomIn, R169, FALSE, TRUE),
      Args(<<RelX, RelC>>, None, ZoomIn, R169, FALSE, TRUE),
      Args(<<RelC, AbsB>>, None, ZoomIn, R169, FALSE, FALSE),
      [Args(<<RelA>>, None, ZoomIn, R169, FALSE, TRUE) EXCEPT !.verbose = TRUE],
      [Args(<<RelA>>, None, ZoomIn, R169, FALSE, TRUE) EXCEPT !.api_key = None],
      Args(<<RelA>>, RelC, ZoomIn, R169, TRUE, TRUE),
      Args(<<RelA>>, RelC, ZoomIn, R169, FALSE, FALSE),
      Args(<<RelA>>, RelC, <<"use", " ", "image1">>, R169, TRUE, FALSE),
      Args(<<RelA>>, None, <<"zoom", " ", "in", " ">>, R169, TRUE, FALSE),
      [Args(<<RelA>>, RelC, ZoomIn, R169, TRUE, FALSE) EXCEPT !.no_auto_reference = TRUE] }

Init == InitWith(MainArgs)

-----------------------------------------------------------------------------
(* main(): one invocation *)

\* the loop of main() moves to the next image item, or to the report
NextItem(p) ==
    /\ idx' = [idx EXCEPT ![p] = @ + 1]
    /\ pc' = [pc EXCEPT ![p] = IF idx[p] < Len(args[p].image_path) THEN "item" ELSE "report"]

\* main()'s except clauses, were a failed item to end the loop
ItemFails_aborts(p, exc, state, l) ==
    /\ errors' = [errors EXCEPT ![p] = Append(@,
           [imagePath |-> args[p].image_path[idx[p]], success |-> FALSE,
            error |-> IF exc.type = "FileNotFoundError"
                      THEN <<"Source image not found: ">> \o exc.msg ELSE exc.msg])]
    /\ loc' = [loc EXCEPT ![p] = [l EXCEPT !.state = state]]
    /\ pc' = [pc EXCEPT ![p] = "report"]
    /\ UNCHANGED <<idx, results>>

\* main()'s except clauses: the item is reported in the errors list
ItemFails(p, exc, state, l) ==
    /\ errors' = [errors EXCEPT ![p] = Append(@,
           [imagePath |-> args[p].image_path[idx[p]], success |-> FALSE,
            error |-> IF exc.type = "FileNotFoundError"
                      THEN <<"Source image not found: ">> \o exc.msg ELSE exc.msg])]
    /\ loc' = [loc EXCEPT ![p] = [l EXCEPT !.state = state]]
    /\ NextItem(p)
    /\ UNCHANGED results

\* main() up to the loop: the API key is required
Main(p) ==
    /\ pc[p] = "main"
    /\ pc' = [pc EXCEPT ![p] = IF Truthy(args[p].api_key) THEN "item" ELSE "exit1"]
    /\ UNCHANGED <<cfg, images, proxy, stderr, files, args, idx, loc, results, errors, hist>>
    /\ stdout' = [stdout EXCEPT ![p] =
           IF Truthy(args[p].api_key) THEN @
           ELSE JsonFailure(<<"API key is required. Use --api-key or set GEMINI_API_KEY environment variable.">>)]

\* main(): the generator cannot be constructed (the video directory cannot
\* be made); the outer except clause reports it and exits with code 1
ConstructFails(p) ==
    /\ pc[p] = "main"
    /\ Truthy(args[p].api_key)
    /\ pc' = [pc EXCEPT ![p] = "exit1"]
    /\ UNCHANGED <<cfg, images, proxy, stderr, files, args, idx, loc, results, errors, hist>>
    /\ stdout' = [stdout EXCEPT ![p] = JsonFailure(<<"[Errno 13] Permission denied: ">> \o cfg.video_dir)]

\* generate_video_from_image, up to the cache key: the images are loaded
\* and the final prompt is built
LoadImages(p) ==
    /\ pc[p] = "item"
    /\ LET a == args[p]
           image_path == a.image_path[idx[p]]
           r1 == _load_image(cfg, images, image_path)
           r2 == IF Truthy(a.second_image)
                 THEN _load_image(cfg, images, a.second_image)
                 ELSE Ok([image_data |-> None, source_path_str |-> None])
       IN  IF ~r1.ok THEN ItemFails(p, r1, "LoadError", InitLoc)
           ELSE IF ~r2.ok THEN ItemFails(p, r2, "LoadError", InitLoc)
           ELSE /\ loc' = [loc EXCEPT ![p] =
                      [InitLoc EXCEPT
                         !.image_data = r1.val.image_data,
                         !.source_path_str = r1.val.source_path_str,
                         !.second_image_data = r2.val.image_data,
                         !.second_source_path_str = r2.val.source_path_str,
                         !.final_prompt = FinalPrompt(a.prompt, image_path, a.second_image,
                                                      ~a.no_auto_reference, a.silent_video),
                         !.state = "Loaded"]]
                /\ pc' = [pc EXCEPT ![p] = "hash"]
                /\ UNCHANGED <<idx, results, errors>>
    /\ UNCHANGED <<cfg, images, proxy, stdout, files, args, hist>>
    /\ stderr' = [stderr EXCEPT ![p] = @ \o
           IF args[p].verbose
           THEN DebugLoad(_load_image(cfg, images, args[p].image_path[idx[p]]).ok,
                          Truthy(args[p].second_image),
                          Truthy(args[p].second_image)
                              /\ _load_image(cfg, images, args[p].second_image).ok,
                          args[p].silent_video)
           ELSE << >>]

\* generate_video_from_image: the cache key is derived, reading the images again
CacheKey(p) ==
    /\ pc[p] = "hash"
    /\ LET l == loc[p]
           k == generate_cache_key(images, l.source_path_str, l.final_prompt,
                    args[p].aspect_ratio,
                    IF Truthy(args[p].second_image) THEN l.second_source_path_str ELSE None)
       IN  IF ~k.ok THEN ItemFails(p, k, "LoadError", l)
           ELSE /\ loc' = [loc EXCEPT ![p].cache_key = k.val]
                /\ pc' = [pc EXCEPT ![p] = "lookup"]
                /\ UNCHANGED <<idx, results, errors>>
    /\ UNCHANGED <<cfg, images, proxy, stdout, stderr, files, args, hist>>

\* the lookup, were it to wait while another request for the same key is
\* between its submission and the end of its save
Lookup_locked(p) ==
    /\ pc[p] = "lookup"
    /\ ~\E q \in Procs \ {p} :
           /\ loc[q].cache_key = loc[p].cache_key
           /\ pc[q] \in {"submit", "poll", "sleep", "download", "open", "write"}
    /\ LET cached_video == get_cached_video(cfg, files, loc[p].cache_key)
       IN  IF ~IsNone(cached_video)
           THEN /\ results' = [results EXCEPT ![p] = Append(@,
                       [imagePath |-> args[p].image_path[idx[p]], success |-> TRUE,
                        status |-> "completed", videoUrl |-> cached_video.videoUrl,
                        videoPath |-> cached_video.videoPath, cached |-> TRUE])]
                /\ loc' = [loc EXCEPT ![p].state = "Cached"]
                /\ hist' = [hist EXCEPT !.hits = @ \cup
                       {[filename |-> VideoFilename(loc[p].cache_key),
                         videoUrl |-> cached_video.videoUrl,
                         videoPath |-> cached_video.videoPath]}]
                /\ NextItem(p)
           ELSE /\ pc' = [pc EXCEPT ![p] = "submit"]
                /\ UNCHANGED <<idx, loc, results, hist>>
    /\ UNCHANGED <<cfg, images, proxy, stdout, stderr, files, args, errors>>

\* generate_video_from_image: the cache is looked up; on a hit main() reports
\* the cached video and goes to the next item
Lookup(p) ==
    /\ pc[p] = "lookup"
    /\ LET cached_video == get_cached_video(cfg, files, loc[p].cache_key)
       IN  IF ~IsNone(cached_video)
           THEN /\ results' = [results EXCEPT ![p] = Append(@,
                       [imagePath |-> args[p].image_path[idx[p]], success |-> TRUE,
                        status |-> "completed", videoUrl |-> cached_video.videoUrl,
                        videoPath |-> cached_video.videoPath, cached |-> TRUE])]
                /\ loc' = [loc EXCEPT ![p].state = "Cached"]
                /\ hist' = [hist EXCEPT !.hits = @ \cup
                       {[filename |-> VideoFilename(loc[p].cache_key),
                         videoUrl |-> cached_video.videoUrl,
                         videoPath |-> cached_video.videoPath]}]
                /\ NextItem(p)
           ELSE /\ pc' = [pc EXCEPT ![p] = "submit"]
                /\ UNCHANGED <<idx, loc, results, hist>>
    /\ UNCHANGED <<cfg, images, proxy, stdout, stderr, files, args, errors>>

\* the clock of a poll session, in ticks since start_time; every reading
\* beyond max_wait_seconds is kept as the first one beyond it, and the clock
\* is forgotten (0) once poll_operation_status has returned
Tick(t) == IF t > MaxWaitTicks THEN MaxWaitTicks + 1 ELSE t

\* the opaque name the remote service gives the operation of an item
OperationName(p, i) == <<"operations", "/", "op" \o ToString(p) \o "-" \o ToString(i)>>

\* the instance submit_video_generation_request sends
Payload(l, aspect_ratio) ==
    [ prompt |-> l.final_prompt, image |-> l.image_data,
      image2 |-> IF Truthy(l.second_image_data) THEN l.second_image_data ELSE None,
      aspectRatio |-> aspect_ratio ]

\* submit_video_generation_request is accepted; with --sync main() goes on to
\* poll_video_operation, without it the operation name is reported
SubmitAccepted(p) ==
    /\ pc[p] = "submit"
    /\ LET l == [loc[p] EXCEPT !.operationName = OperationName(p, idx[p]),
                               !.payload = Payload(loc[p], args[p].aspect_ratio),
                               !.calls = @ \cup {"submit"}]
       IN  IF args[p].sync
           THEN /\ loc' = [loc EXCEPT ![p] = [l EXCEPT !.state = "Polling", !.clock = 0]]
                /\ pc' = [pc EXCEPT ![p] = "poll"]
                /\ UNCHANGED <<idx, results>>
           ELSE /\ results' = [results EXCEPT ![p] = Append(@,
                       [imagePath |-> args[p].image_path[idx[p]], success |-> TRUE,
                        status |-> "processing", operationName |-> l.operationName])]
                /\ loc' = [loc EXCEPT ![p] = [l EXCEPT !.state = "Processing"]]
                /\ NextItem(p)
    /\ UNCHANGED <<cfg, images, proxy, stdout, files, args, errors, hist>>
    /\ stderr' = [stderr EXCEPT ![p] = @
           \o (IF args[p].verbose
               THEN <<"DEBUG: Video Generation Request", "[API Response] Status Code:">>
               ELSE << >>)
           \o (IF args[p].sync /\ ~args[p].verbose
               THEN <<"Starting video generation...">> ELSE << >>)]

\* submit_video_generation_request fails: the request fails at transport
\* level, or the answer carries no operation name
SubmitFails(p) ==
    /\ pc[p] = "submit"
    /\ \E msg \in { <<"Gemini API request failed: ", "503">>,
                    <<"Video generation failed: ", "Invalid API response: operation name not found">> } :
           ItemFails(p, Raise("RuntimeError", msg), "SubmitError",
                     [loc[p] EXCEPT !.payload = Payload(loc[p], args[p].aspect_ratio),
                                    !.calls = @ \cup {"submit"}])
    /\ UNCHANGED <<cfg, images, proxy, stdout, files, args, hist>>
    /\ stderr' = [stderr EXCEPT ![p] = @ \o
           IF args[p].verbose
           THEN <<"DEBUG: Video Generation Request", "[API Error]">> ELSE << >>]

\* the timeout check, were the elapsed ticks compared with a limit converted twice
TimeoutReached_wrong_unit(elapsed) == elapsed > MaxWaitTicks * TicksPerSecond

\* the timeout check, were the limit itself taken as exceeding it
TimeoutReached_at_limit(elapsed) == elapsed >= MaxWaitTicks

\* the timeout check at the top of the poll loop
TimeoutReached(elapsed) == elapsed > MaxWaitTicks

\* poll_operation_status, top of the loop: the wait is over
PollTimeout(p) ==
    /\ pc[p] = "poll"
    /\ TimeoutReached(loc[p].clock)
    /\ ItemFails(p, Raise("RuntimeError",
                          <<"Video generation timeout after ", ToString(MaxWaitSeconds), " seconds">>),
                 "TimedOut", loc[p])
    /\ UNCHANGED <<cfg, images, proxy, stdout, files, args, hist>>
    /\ stderr' = [stderr EXCEPT ![p] = @ \o IF args[p].verbose THEN << >> ELSE <<"\n">>]

\* the failed poll request, were the loop to wait and poll again after it
PollTransportError_retries(p) ==
    /\ pc[p] = "poll"
    /\ ~TimeoutReached(loc[p].clock)
    /\ \E d \in 0..MaxRequestTicks :
           loc' = [loc EXCEPT ![p].clock = Tick(@ + d), ![p].calls = @ \cup {"poll"},
                              ![p].state = "PollError"]
    /\ pc' = [pc EXCEPT ![p] = "sleep"]
    /\ UNCHANGED <<cfg, images, proxy, stdout, stderr, files, args, idx, results, errors, hist>>

\* poll_operation_status, one poll request that fails at transport level
PollTransportError(p) ==
    /\ pc[p] = "poll"
    /\ ~TimeoutReached(loc[p].clock)
    /\ \E d \in 0..MaxRequestTicks :
           ItemFails(p, Raise("RuntimeError", <<"Video operation polling failed: ", "503">>),
                     "PollError",
                     [loc[p] EXCEPT !.clock = Tick(@ + d), !.calls = @ \cup {"poll"}])
    /\ UNCHANGED <<cfg, images, proxy, stdout, files, args, hist>>
    /\ stderr' = [stderr EXCEPT ![p] = @ \o
           IF args[p].verbose THEN <<"[Poll Error] Request Exception:">> ELSE << >>]

\* poll_operation_status, one poll request that is answered: not done, the
\* loop goes to sleep; done, the data is returned to poll_video_operation,
\* which extracts the video URI
PollAnswered(p, Responses) ==
    /\ pc[p] = "poll"
    /\ ~TimeoutReached(loc[p].clock)
    /\ \E d \in 0..MaxRequestTicks, data \in Responses :
           LET l == [loc[p] EXCEPT !.clock = Tick(@ + d), !.data = data,
                                   !.calls = @ \cup {"poll"}]
               video_uri == extract_video_uri(data)
           IN  IF ~Get(data, "done", FALSE)
               THEN /\ loc' = [loc EXCEPT ![p] = l]
                    /\ pc' = [pc EXCEPT ![p] = "sleep"]
                    /\ UNCHANGED <<idx, results, errors>>
               ELSE IF ~video_uri.ok
               THEN ItemFails(p, video_uri,
                              IF video_uri.msg = NoUriMessage THEN "Failed" ELSE "Filtered",
                              [l EXCEPT !.clock = 0])
               ELSE /\ loc' = [loc EXCEPT ![p] = [l EXCEPT !.video_uri = video_uri.val,
                                                        !.clock = 0,
                                                        !.state = "Downloading"]]
                    /\ pc' = [pc EXCEPT ![p] = "download"]
                    /\ UNCHANGED <<idx, results, errors>>
    /\ UNCHANGED <<cfg, images, proxy, stdout, files, args, hist>>
    /\ stderr' = [stderr EXCEPT ![p] = @ \o
           PollOutput(args[p].verbose, Get(loc'[p].data, "done", FALSE))]

RECURSIVE SpinnerSleep_inclusive(_)
\* the sleep loop, were it to go on until more than the interval is slept
SpinnerSleep_inclusive(slept) ==
    IF slept <= PollIntervalTicks THEN 1 + SpinnerSleep_inclusive(slept + 1) ELSE 0

RECURSIVE SpinnerSleep(_)
\* the sleep loop of the progress display: 0.5 s at a time until
\* poll_interval_seconds have been slept; the ticks it takes
SpinnerSleep(slept) ==
    IF slept < PollIntervalTicks THEN 1 + SpinnerSleep(slept + 1) ELSE 0

\* the time the poll loop waits before the next poll
SleepTicks(verbose) == IF verbose THEN PollIntervalTicks ELSE SpinnerSleep(0)

\* the wait between two polls, were it to grow with the time already waited
Sleep_backoff(p) ==
    /\ pc[p] = "sleep"
    /\ loc' = [loc EXCEPT ![p].clock = Tick(@ + SleepTicks(args[p].verbose) + @)]
    /\ pc' = [pc EXCEPT ![p] = "poll"]
    /\ UNCHANGED <<cfg, images, proxy, stdout, stderr, files, args, idx, results, errors, hist>>

\* poll_operation_status: the wait between two polls
Sleep(p) ==
    /\ pc[p] = "sleep"
    /\ loc' = [loc EXCEPT ![p].clock = Tick(@ + SleepTicks(args[p].verbose))]
    /\ pc' = [pc EXCEPT ![p] = "poll"]
    /\ UNCHANGED <<cfg, images, proxy, stdout, stderr, files, args, idx, results, errors, hist>>

\* the key saved under, were the operation name used whatever key is given
SaveKey_operation_name(cache_key, operation_name) == PathName(operation_name)

\* the cache key poll_video_operation saves under: the one it is given, or
\* the last part of the operation name
SaveKey(cache_key, operation_name) ==
    IF Truthy(cache_key) THEN cache_key ELSE PathName(operation_name)

\* the descriptor, were the URL built from the whole path, not the file name
PollDescriptor_whole_path(c, video_path) ==
    LET video_url == VideoUrl(c, video_path)
    IN  [ videoUrl |-> video_url, videoPath |-> video_path,
          embedUrl |-> <<"<video controls ...><source src=\"">> \o video_url
                       \o <<"\" type=\"video/mp4\">...</video>">>,
          status |-> "completed" ]

\* the descriptor poll_video_operation returns for the saved file
PollDescriptor(c, video_path) ==
    LET video_url == VideoUrl(c, PathName(video_path))
    IN  [ videoUrl |-> video_url, videoPath |-> video_path,
          embedUrl |-> <<"<video controls ...><source src=\"">> \o video_url
                       \o <<"\" type=\"video/mp4\">...</video>">>,
          status |-> "completed" ]

\* the failed download, were the file opened before the download is made
DownloadFails_after_open(p) ==
    /\ pc[p] = "download"
    /\ ItemFails(p, Raise("HTTPError", <<"404 Client Error">>), "DownloadError",
                 [loc[p] EXCEPT !.request_url = DownloadUrl(loc[p].video_uri, args[p].api_key),
                                !.request_headers = DownloadHeaders(args[p].api_key),
                                !.redirects = Redirects(DownloadUrl(loc[p].video_uri, args[p].api_key)),
                                !.calls = @ \cup {"download"}])
    /\ files' = (VideoFilename(SaveKey(loc[p].cache_key, loc[p].operationName)) :> << >>)
                 @@ files
    /\ UNCHANGED <<cfg, images, proxy, stdout, stderr, args, hist>>

\* save_video, download_video: the request fails (transport error or a
\* status that is not 2xx, after any redirects)
DownloadFails(p) ==
    /\ pc[p] = "download"
    /\ ItemFails(p, Raise("HTTPError", <<"404 Client Error">>), "DownloadError",
                 [loc[p] EXCEPT !.request_url = DownloadUrl(loc[p].video_uri, args[p].api_key),
                                !.request_headers = DownloadHeaders(args[p].api_key),
                                !.redirects = Redirects(DownloadUrl(loc[p].video_uri, args[p].api_key)),
                                !.calls = @ \cup {"download"}])
    /\ UNCHANGED <<cfg, images, proxy, stdout, stderr, files, args, hist>>

\* the download of an empty body, were the body not tested: it is saved
DownloadEmpty_saved(p) ==
    /\ pc[p] = "download"
    /\ loc' = [loc EXCEPT ![p].request_url = DownloadUrl(loc[p].video_uri, args[p].api_key),
                          ![p].request_headers = DownloadHeaders(args[p].api_key),
                          ![p].redirects = Redirects(DownloadUrl(loc[p].video_uri, args[p].api_key)),
                          ![p].video_content = <<>>,
                          ![p].calls = @ \cup {"download"},
                          ![p].state = "Saving"]
    /\ pc' = [pc EXCEPT ![p] = "open"]
    /\ UNCHANGED <<cfg, images, proxy, stdout, stderr, files, args, idx, results, errors, hist>>

\* save_video, download_video: the body read is empty
DownloadEmpty(p) ==
    /\ pc[p] = "download"
    /\ ItemFails(p, Raise("RuntimeError", <<"Video download returned empty content">>),
                 "EmptyResult",
                 [loc[p] EXCEPT !.request_url = DownloadUrl(loc[p].video_uri, args[p].api_key),
                                !.request_headers = DownloadHeaders(args[p].api_key),
                                !.redirects = Redirects(DownloadUrl(loc[p].video_uri, args[p].api_key)),
                                !.video_content = <<>>,
                                !.calls = @ \cup {"download"}])
    /\ UNCHANGED <<cfg, images, proxy, stdout, stderr, files, args, hist>>

\* save_video, download_video: the video is returned
DownloadReturns(p) ==
    /\ pc[p] = "download"
    /\ LET body == VideoOf(loc[p].operationName)
           filename == VideoFilename(SaveKey(loc[p].cache_key, loc[p].operationName))
       IN  /\ loc' = [loc EXCEPT ![p].request_url = DownloadUrl(loc[p].video_uri, args[p].api_key),
                          ![p].request_headers = DownloadHeaders(args[p].api_key),
                          ![p].redirects = Redirects(DownloadUrl(loc[p].video_uri, args[p].api_key)),
                                 ![p].video_content = body,
                                 ![p].calls = @ \cup {"download"},
                                 ![p].state = "Saving"]
           /\ hist' = [hist EXCEPT !.bodies = @ \cup {<<filename, body>>}]
    /\ pc' = [pc EXCEPT ![p] = "open"]
    /\ UNCHANGED <<cfg, images, proxy, stdout, stderr, files, args, idx, results, errors>>

\* save_video: open(video_path, 'wb') creates the file or truncates it
OpenFile(p) ==
    /\ pc[p] = "open"
    /\ LET filename == VideoFilename(SaveKey(loc[p].cache_key, loc[p].operationName))
       IN  files' = (filename :> << >>) @@ files
    /\ loc' = [loc EXCEPT ![p].wpos = 0]
    /\ pc' = [pc EXCEPT ![p] = "write"]
    /\ UNCHANGED <<cfg, images, proxy, stdout, stderr, args, idx, results, errors, hist>>

\* the bytes of a file after chunk is written at offset pos
WriteAt(old, pos, chunk) ==
    LET n == IF Len(old) > pos + 1 THEN Len(old) ELSE pos + 1
    IN  [i \in 1..n |-> IF i = pos + 1 THEN chunk
                        ELSE IF i <= Len(old) THEN old[i] ELSE "\\0"]

\* save_video: f.write, one chunk of the content reaching the file
WriteChunk(p) ==
    /\ pc[p] = "write"
    /\ loc[p].wpos < Len(loc[p].video_content)
    /\ LET filename == VideoFilename(SaveKey(loc[p].cache_key, loc[p].operationName))
       IN  files' = [files EXCEPT ![filename] =
                        WriteAt(@, loc[p].wpos, loc[p].video_content[loc[p].wpos + 1])]
    /\ loc' = [loc EXCEPT ![p].wpos = @ + 1]
    /\ UNCHANGED <<cfg, images, proxy, stdout, stderr, args, pc, idx, results, errors, hist>>

\* save_video returns: the file is closed, poll_video_operation returns the
\* descriptor and main() reports the item
CloseFile(p) ==
    /\ pc[p] = "write"
    /\ loc[p].wpos = Len(loc[p].video_content)
    /\ LET filename == VideoFilename(SaveKey(loc[p].cache_key, loc[p].operationName))
           result_data == PollDescriptor(cfg, PathJoin(cfg.video_dir, filename))
       IN  /\ results' = [results EXCEPT ![p] = Append(@,
                  [imagePath |-> args[p].image_path[idx[p]], success |-> TRUE,
                   status |-> "completed", videoUrl |-> result_data.videoUrl,
                   videoPath |-> result_data.videoPath, embedUrl |-> result_data.embedUrl])]
           /\ hist' = [hist EXCEPT !.created = @ \cup
                  {[filename |-> filename, videoUrl |-> result_data.videoUrl,
                    videoPath |-> result_data.videoPath]}]
    /\ loc' = [loc EXCEPT ![p].state = "Succeeded"]
    /\ NextItem(p)
    /\ UNCHANGED <<cfg, images, proxy, stdout, stderr, files, args, errors>>

\* the exit, were code 1 kept for a run without any result
Report_any_result(p) ==
    /\ pc[p] = "report"
    /\ pc' = [pc EXCEPT ![p] = IF results[p] = << >> THEN "exit1" ELSE "exit0"]
    /\ UNCHANGED <<cfg, images, proxy, stderr, files, args, idx, loc, results, errors, hist>>
    /\ stdout' = [stdout EXCEPT ![p] = JsonReport(args[p], results[p], errors[p])]

\* main() after the loop: the report is printed and the process exits, with
\* code 1 if any item failed
Report(p) ==
    /\ pc[p] = "report"
    /\ pc' = [pc EXCEPT ![p] = IF errors[p] # << >> THEN "exit1" ELSE "exit0"]
    /\ UNCHANGED <<cfg, images, proxy, stderr, files, args, idx, loc, results, errors, hist>>
    /\ stdout' = [stdout EXCEPT ![p] = JsonReport(args[p], results[p], errors[p])]

Step(p, Responses) ==
    \/ Main(p)
    \/ ConstructFails(p)
    \/ LoadImages(p)
    \/ CacheKey(p)
    \/ Lookup(p)
    \/ SubmitAccepted(p)
    \/ SubmitFails(p)
    \/ PollTimeout(p)
    \/ PollTransportError(p)
    \/ PollAnswered(p, Responses)
    \/ Sleep(p)
    \/ DownloadFails(p)
    \/ DownloadEmpty(p)
    \/ DownloadReturns(p)
    \/ OpenFile(p)
    \/ WriteChunk(p)
    \/ CloseFile(p)
    \/ Report(p)

\* invocations running concurrently
Next == \E p \in Procs : Step(p, ConcurrentResponses)

Spec == Init /\ [][Next]_vars

\* one invocation on its own, the other not started
CliInit == InitWith(CliArgs) /\ args[2] = Args(<<RelA>>, None, ZoomIn, R169, FALSE, TRUE)

CliNext == Step(1, PollResponses)

CliSpec == CliInit /\ [][CliNext]_vars

\* the invocation is scheduled as long as it has not exited
CliFairSpec == CliSpec /\ WF_vars(CliNext)

-----------------------------------------------------------------------------
(* Key derivation on its own: two requests are drawn, each loads its images *)
(* and derives its cache key                                                *)

PanLeft == <<"pan", " ", "left">>
R916 == <<"9", ":", "16">>

\* one request: a single image item, not waited for
KeyReq(image_path, second_image, prompt, aspect_ratio, silent_video, no_auto_reference) ==
    [Args(<<image_path>>, second_image, prompt, aspect_ratio, silent_video, FALSE)
        EXCEPT !.no_auto_reference = no_auto_reference]

KeyArgs ==
    { KeyReq(ip, None, ZoomIn, R169, FALSE, FALSE) :
          ip \in {RelA, PubA, AbsB, UrlA, RelC, RelE, RelX, UrlX} }
    \cup { KeyReq(RelA, None, pr, ra, sv, FALSE) :
          pr \in {ZoomIn, PanLeft}, ra \in {R169, R916}, sv \in BOOLEAN }
    \cup { KeyReq(ip, si, ZoomIn, R169, FALSE, na) :
          ip \in {RelA, UrlA}, si \in {RelC, RelE, AbsB, UrlA, UrlX}, na \in BOOLEAN }
    \cup { KeyReq(RelA, None, <<"a", ":", "16">>, <<"9">>, FALSE, FALSE),
           KeyReq(RelA, None, <<"a">>, R169, FALSE, FALSE) }

KeyInit == InitWith(KeyArgs)

KeyNext == \E p \in Procs : Main(p) \/ LoadImages(p) \/ CacheKey(p)

KeySpec == KeyInit /\ [][KeyNext]_vars

-----------------------------------------------------------------------------
(* The same request run twice against the same remote service: run 1 with *)
(* the progress display, run 2 with --verbose, which turns the display off *)

WithDisplay == Args(<<RelA>>, None, ZoomIn, R169, FALSE, TRUE)
WithoutDisplay == [WithDisplay EXCEPT !.verbose = TRUE]

PairInit ==
    /\ InitWith({WithDisplay, WithoutDisplay})
    /\ args[1] = WithDisplay /\ args[2] = WithoutDisplay

\* an invocation up to the end of its poll session
PollSession(p, Responses) ==
    \/ Main(p)
    \/ LoadImages(p)
    \/ CacheKey(p)
    \/ Lookup(p)
    \/ SubmitAccepted(p)
    \/ SubmitFails(p)
    \/ PollTimeout(p)
    \/ PollTransportError(p)
    \/ PollAnswered(p, Responses)
    \/ Sleep(p)

\* run 1 takes a step, the remote service behaving in any way
PairLead == pc[1] = pc[2] /\ PollSession(1, PollResponses)

\* the remote service treats the request run 2 sends in this step as it treated
\* that of run 1: the submission is refused with the same message or accepted,
\* the poll fails or is answered with the same body after the same time
SameRemote ==
    /\ (pc[2] = "submit") =>
           /\ (loc'[2].state = "SubmitError") <=> (loc[1].state = "SubmitError")
           /\ (loc[1].state = "SubmitError") => errors'[2] = errors[1]
    /\ (pc[2] = "poll" /\ loc'[2].state # "TimedOut") =>
           /\ (loc'[2].state = "PollError") <=> (loc[1].state = "PollError")
           /\ loc'[2].clock = loc[1].clock

\* run 2 takes the step run 1 has taken
PairFollow == pc[1] # pc[2] /\ PollSession(2, {loc[1].data}) /\ SameRemote

PairNext == PairLead \/ PairFollow

PairSpec == PairInit /\ [][PairNext]_vars

-----------------------------------------------------------------------------
(* video_api_server.py: the HTTP proxy that runs the command-line tool *)

\* the secret the server is started with (--api-key or VIDEO_API_KEY)
Secret == <<"s3cret">>

\* VideoAPIHandler.authenticate
authenticate(headers, api_key) ==
    LET auth_header == Get(headers, "Authorization", << >>)
        api_key_header == Get(headers, "X-API-Key", << >>)
        provided_key == IF StartsWith(auth_header, <<"Bearer ">>) THEN Tail(auth_header)
                        ELSE IF auth_header # << >> THEN auth_header
                        ELSE IF api_key_header # << >> THEN api_key_header
                        ELSE None
    IN  IF provided_key = None \/ provided_key = << >> THEN FALSE
        ELSE provided_key = api_key

\* the values of the Authorization header of the requests considered
AuthorizationValues ==
    { <<"Bearer ">> \o Secret, <<"Bearer ", "wrong">>, Secret, <<"Basic ", "dXNlcg==">> }

\* the header sets of the requests considered; a header may be missing
ProxyHeaders ==
    { ("Authorization" :> a) @@ ("X-API-Key" :> x) :
          a \in AuthorizationValues, x \in {Secret, <<"wrong">>} }
    \cup { ("Authorization" :> a) @@ ("Content-Type" :> <<"application/json">>) :
          a \in AuthorizationValues }
    \cup { ("X-API-Key" :> x) @@ ("Content-Type" :> <<"application/json">>) :
          x \in {Secret, <<"wrong">>} }
    \cup { ("Content-Type" :> <<"application/json">>) }

\* the image_path field of a request: one string, or a list of strings
\* (v holds the paths, of which a string is one)
ImageStr(t) == [isList |-> FALSE, v |-> <<t>>]
ImageList(l) == [isList |-> TRUE, v |-> l]

\* the request bodies considered: none, text that is not JSON, a JSON number,
\* JSON arrays of strings, and JSON objects
ProxyBodies ==
    { [kind |-> "empty"], [kind |-> "text"], [kind |-> "json", type |-> "number"],
      [kind |-> "json", type |-> "array", elems |-> {"zoom in"}],
      [kind |-> "json", type |-> "array", elems |-> {"image_path", "prompt"}] }
    \cup { [kind |-> "json", type |-> "object", data |-> d] : d \in
            { [prompt |-> ZoomIn],
              [image_path |-> ImageStr(RelA)],
              [image_path |-> ImageStr(RelA), prompt |-> ZoomIn],
              [image_path |-> ImageStr(RelX), prompt |-> ZoomIn, api_key |-> ApiKey],
              [image_path |-> ImageStr(UrlA), prompt |-> ZoomIn, sync |-> FALSE,
               aspect_ratio |-> R916],
              [image_path |-> ImageList(<<RelX, RelC>>), prompt |-> ZoomIn] } }

\* generate_video: the command line built from the request, as main() of
\* the tool parses it; of several -ip options the parser keeps the last
Command(request_data, env_key) ==
    [ api_key |-> IF Truthy(Get(request_data, "api_key", None))
                  THEN request_data.api_key ELSE env_key,
      image_path |-> IF request_data.image_path.isList
                     THEN <<request_data.image_path.v[Len(request_data.image_path.v)]>>
                     ELSE <<request_data.image_path.v[1]>>,
      second_image |-> IF Truthy(Get(request_data, "second_image", None))
                       THEN request_data.second_image ELSE None,
      prompt |-> request_data.prompt,
      aspect_ratio |-> IF Truthy(Get(request_data, "aspect_ratio", None))
                       THEN request_data.aspect_ratio ELSE <<"16", ":", "9">>,
      silent_video |-> Get(request_data, "silent_video", FALSE),
      sync |-> Get(request_data, "sync", TRUE),
      no_auto_reference |-> Get(request_data, "no_auto_reference", FALSE),
      verbose |-> FALSE ]

\* generate_video: the envelope made of what the finished process left
Envelope(returncode, out, err) ==
    IF returncode = 0
    THEN [success |-> TRUE, data |-> out]
    ELSE [success |-> FALSE,
          error |-> IF err # << >> THEN err
                    ELSE IF out # << >> THEN out ELSE <<"Unknown error">>,
          return_code |-> returncode]

\* a request that has reached the handler
ProxyRequest(headers, body, env_key) ==
    [ phase |-> "received", api_key |-> Secret, env_key |-> env_key,
      headers |-> headers, body |-> body,
      status |-> 0, message |-> << >>, envelope |-> NoneDict ]

ProxyInit ==
    /\ cfg \in Deployments
    /\ images = World
    /\ files = << >>
    /\ args = [p \in Procs |-> Args(<<RelA>>, None, ZoomIn, R169, FALSE, TRUE)]
    /\ pc = [p \in Procs |-> "off"]
    /\ idx = [p \in Procs |-> 1]
    /\ loc = [p \in Procs |-> InitLoc]
    /\ results = [p \in Procs |-> << >>]
    /\ errors = [p \in Procs |-> << >>]
    /\ stdout = [p \in Procs |-> << >>]
    /\ stderr = [p \in Procs |-> << >>]
    /\ proxy \in { ProxyRequest(h, b, k) :
                      h \in ProxyHeaders, b \in ProxyBodies, k \in {ApiKey, None} }
    /\ hist = [bodies |-> {}, created |-> {}, hits |-> {}]

\* do_POST, 'image_path' not in request_data: membership in what json.loads
\* returned, a key of an object or an element of an array; a number has none
\* and the test raises TypeError
FieldIn(field, body) ==
    IF body.type = "object" THEN Ok(field \in DOMAIN body.data)
    ELSE IF body.type = "array" THEN Ok(field \in body.elems)
    ELSE Raise("TypeError", <<"argument of type 'int' is not iterable">>)

\* send_error / send_response: the answer goes out
Respond(status, message, envelope) ==
    proxy' = [proxy EXCEPT !.phase = "responded", !.status = status,
                           !.message = message, !.envelope = envelope]

\* do_POST up to the call of generate_video: the request is authenticated,
\* parsed and validated, and the tool is started as process 1
do_POST ==
    /\ proxy.phase = "received"
    /\ LET body == proxy.body
       IN  IF ~authenticate(proxy.headers, proxy.api_key)
           THEN Respond(401, <<"Unauthorized: Invalid API key">>, NoneDict)
                /\ UNCHANGED <<args, pc>>
           ELSE IF body.kind = "empty"
           THEN Respond(400, <<"Bad Request: Empty request body">>, NoneDict)
                /\ UNCHANGED <<args, pc>>
           ELSE IF body.kind = "text"
           THEN Respond(400, <<"Bad Request: Invalid JSON - ", "Expecting value">>, NoneDict)
                /\ UNCHANGED <<args, pc>>
           ELSE IF ~FieldIn("image_path", body).ok
           THEN Respond(500, <<"Internal Server Error: ">>
                               \o FieldIn("image_path", body).msg, NoneDict)
                /\ UNCHANGED <<args, pc>>
           ELSE IF ~FieldIn("image_path", body).val
           THEN Respond(400, <<"Bad Request: 'image_path' is required">>, NoneDict)
                /\ UNCHANGED <<args, pc>>
           ELSE IF ~FieldIn("prompt", body).val
           THEN Respond(400, <<"Bad Request: 'prompt' is required">>, NoneDict)
                /\ UNCHANGED <<args, pc>>
           ELSE IF body.type # "object"
           THEN \* generate_video: request_data['image_path'] raises, caught
                Respond(200, << >>,
                        [success |-> FALSE,
                         error |-> <<"list indices must be integers or slices, not str">>])
                /\ UNCHANGED <<args, pc>>
           ELSE /\ args' = [args EXCEPT ![1] = Command(body.data, proxy.env_key)]
                /\ pc' = [pc EXCEPT ![1] = "main"]
                /\ proxy' = [proxy EXCEPT !.phase = "running"]
    /\ UNCHANGED <<cfg, images, files, idx, loc, results, errors, stdout, stderr, hist>>

\* generate_video, subprocess.run returns: the envelope is sent with status 200
SubprocessReturns ==
    /\ proxy.phase = "running"
    /\ pc[1] \in {"exit0", "exit1"}
    /\ Respond(200, << >>,
               Envelope(IF pc[1] = "exit0" THEN 0 ELSE 1, stdout[1], stderr[1]))
    /\ UNCHANGED <<cfg, images, files, args, pc, idx, loc, results, errors, stdout, stderr, hist>>

\* generate_video, subprocess.run gives up after 10 minutes, which the
\* download or the writing of the video may take: the process is killed
SubprocessTimesOut ==
    /\ proxy.phase = "running"
    /\ pc[1] \in {"download", "open", "write"}
    /\ pc' = [pc EXCEPT ![1] = "killed"]
    /\ Respond(200, << >>,
               [success |-> FALSE, error |-> <<"Video generation timed out after 10 minutes">>])
    /\ UNCHANGED <<cfg, images, files, args, idx, loc, results, errors, stdout, stderr, hist>>

ProxyNext ==
    \/ do_POST
    \/ Step(1, PollResponses)
    \/ SubprocessReturns
    \/ SubprocessTimesOut

ProxySpec == ProxyInit /\ [][ProxyNext]_vars

-----------------------------------------------------------------------------
(* One invocation while the image sources change: a file is overwritten, a *)
(* URL starts to serve other bytes                                         *)

\* the invocations considered while the sources change
ChangeArgs ==
    { Args(<<RelA>>, None, ZoomIn, R169, FALSE, TRUE),
      Args(<<UrlA, RelC>>, None, ZoomIn, R169, FALSE, TRUE),
      Args(<<RelA>>, RelC, ZoomIn, R169, FALSE, FALSE) }

ChangeInit == InitWith(ChangeArgs) /\ args[2] = Args(<<RelA>>, None, ZoomIn, R169, FALSE, TRUE)

\* the environment, once: the bytes at one image source are replaced
ImageChanges ==
    /\ images = World
    /\ \E src \in DOMAIN images : images' = [images EXCEPT ![src] = <<"01">>]
    /\ UNCHANGED <<cfg, files, args, pc, idx, loc, results, errors, stdout, stderr, proxy, hist>>

ChangeNext == Step(1, ConcurrentResponses) \/ ImageChanges

ChangeSpec == ChangeInit /\ [][ChangeNext]_vars

-----------------------------------------------------------------------------
(* Properties of the cache key (KeySpec) *)

Last(seq) == seq[Len(seq)]

\* the request of p has derived its cache key
HasKey(p) == Truthy(loc[p].cache_key)

\* the request of p has a second image
HasSecond(p) == Truthy(args[p].second_image)

\* the four inputs of the key, as the request of p read them
PrimaryBytes(p) == loc[p].image_data
SecondaryBytes(p) == IF HasSecond(p) THEN <<"present">> \o loc[p].second_image_data ELSE <<"absent">>
PromptOf(p) == loc[p].final_prompt
RatioOf(p) == args[p].aspect_ratio

\* in how many of the four inputs the requests of p and q differ
Differences(p, q) ==
    Cardinality({ i \in 1..4 :
        \/ i = 1 /\ PrimaryBytes(p) # PrimaryBytes(q)
        \/ i = 2 /\ SecondaryBytes(p) # SecondaryBytes(q)
        \/ i = 3 /\ PromptOf(p) # PromptOf(q)
        \/ i = 4 /\ RatioOf(p) # RatioOf(q) })

\* C5: two requests with equal primary image bytes, equal secondary image
\* bytes (or both without a second image), equal final prompt and equal aspect
\* ratio have the same cache key, whatever path or URL names the images.
C5_EqualInputsEqualKey ==
    \A p, q \in Procs :
        (HasKey(p) /\ HasKey(q) /\ Differences(p, q) = 0)
            => loc[p].cache_key = loc[q].cache_key

\* a URL request and a local-path request with equal inputs got the same key
C5_Witness ==
    /\ HasKey(1) /\ HasKey(2) /\ Differences(1, 2) = 0
    /\ is_url(args[1].image_path[1]) /\ ~is_url(args[2].image_path[1])
    /\ HasSecond(1) /\ args[1].second_image # args[2].second_image
    /\ loc[1].cache_key = loc[2].cache_key

\* C6: with the digest collision-free, two requests that differ in exactly
\* one of primary bytes, secondary bytes, final prompt and aspect ratio have
\* different cache keys.
C6_OneDifferenceOtherKey ==
    \A p, q \in Procs :
        (HasKey(p) /\ HasKey(q) /\ Differences(p, q) = 1)
            => loc[p].cache_key # loc[q].cache_key

\* two requests that differ in the aspect ratio only have derived their keys
C6_Witness ==
    /\ HasKey(1) /\ HasKey(2) /\ Differences(1, 2) = 1
    /\ RatioOf(1) # RatioOf(2)
    /\ loc[1].cache_key # loc[2].cache_key

\* the second field of the hashed string: the digest of the second image's
\* bytes, or the empty string
SecondField(p) == IF HasSecond(p) THEN md5(loc[p].second_image_data) ELSE << >>

\* C7: the cache key is H(H(primary) ':' S ':' prompt ':' ratio), S being
\* H(secondary) or empty; with no second image, prompt 'zoom in' and ratio
\* '16:9' the hashed string is H(primary) followed by '::zoom in:16:9'.
C7_KeyFormula ==
    \A p \in Procs : HasKey(p) =>
        /\ loc[p].cache_key =
               md5(md5(PrimaryBytes(p)) \o <<":">> \o SecondField(p) \o <<":">>
                   \o PromptOf(p) \o <<":">> \o RatioOf(p))
        /\ (~HasSecond(p) /\ PromptOf(p) = <<"zoom", " ", "in">> /\ RatioOf(p) = <<"16", ":", "9">>)
               => loc[p].cache_key =
                      md5(md5(PrimaryBytes(p)) \o <<":", ":", "zoom", " ", "in", ":", "16", ":", "9">>)

\* the scenario's request and a request with a second image have their keys
C7_Witness ==
    /\ HasKey(1) /\ ~HasSecond(1) /\ PromptOf(1) = ZoomIn /\ RatioOf(1) = R169
    /\ HasKey(2) /\ HasSecond(2)

\* C8: a request without a second image and one whose second image is present
\* with zero bytes, all else equal, have different keys: the absent image
\* contributes the empty string, the empty one the digest of no bytes.
C8_AbsentIsNotEmpty ==
    \A p, q \in Procs :
        ( /\ HasKey(p) /\ HasKey(q)
          /\ ~HasSecond(p) /\ HasSecond(q) /\ loc[q].second_image_data = << >>
          /\ PrimaryBytes(p) = PrimaryBytes(q) /\ PromptOf(p) = PromptOf(q)
          /\ RatioOf(p) = RatioOf(q) )
        => /\ loc[p].cache_key # loc[q].cache_key
           /\ loc[p].cache_key = md5(md5(PrimaryBytes(p)) \o <<":">> \o <<":">>
                                     \o PromptOf(p) \o <<":">> \o RatioOf(p))
           /\ loc[q].cache_key = md5(md5(PrimaryBytes(q)) \o <<":">> \o md5(<< >>) \o <<":">>
                                     \o PromptOf(q) \o <<":">> \o RatioOf(q))

\* such a pair of requests have derived their keys
C8_Witness ==
    /\ HasKey(1) /\ HasKey(2)
    /\ ~HasSecond(1) /\ HasSecond(2) /\ loc[2].second_image_data = << >>
    /\ PrimaryBytes(1) = PrimaryBytes(2) /\ PromptOf(1) = PromptOf(2)
    /\ RatioOf(1) = RatioOf(2)

-----------------------------------------------------------------------------
(* Properties of the poll session (CliSpec, CliFairSpec) *)

\* the last poll response of p's session reported done
Done(p) == Get(loc[p].data, "done", FALSE)

\* poll_operation_status of p's session has returned operation data
Returned(p) ==
    loc[p].state \in {"Downloading", "Saving", "Succeeded", "Filtered", "Failed",
                      "DownloadError", "EmptyResult"}

\* p is inside the poll loop
InPollLoop(p) == pc[p] \in {"poll", "sleep"}

\* C1: a poll session in which no response reports done ends: it raises
\* the timeout error once the elapsed time exceeds max_wait_seconds (or the
\* polling error of a failed request), it never loops forever, and it never
\* returns operation data, so no file is saved and no descriptor returned.
C1_PollTerminates ==
    /\ [](\A p \in Procs :
            /\ (~Done(p)) => ~Returned(p)
            /\ (loc[p].state = "TimedOut") =>
                   /\ loc[p].clock > MaxWaitTicks
                   /\ Last(errors[p]).error[1] = "Video generation timeout after ")
    /\ (InPollLoop(1) ~> ~InPollLoop(1))

\* a session polled, was never told done, and timed out
C1_Witness ==
    /\ loc[1].state = "TimedOut" /\ "poll" \in loc[1].calls /\ ~Done(1)
    /\ hist.created = {} /\ files = << >>

\* the completed response of p's session reports a safety-filter block
ReportsFilter(p) ==
    /\ Done(p)
    /\ "response" \in DOMAIN loc[p].data
    /\ "generateVideoResponse" \in DOMAIN loc[p].data.response
    /\ "raiMediaFilteredReasons" \in DOMAIN loc[p].data.response.generateVideoResponse

\* position of token t in message e (0 when absent)
PosOf(e, t) ==
    LET I == {i \in 1..Len(e) : e[i] = t}
    IN  IF I = {} THEN 0 ELSE CHOOSE i \in I : \A j \in I : i <= j

\* C4: a completed response that reports a safety-filter block makes the
\* session fail with the safety-filter error, which carries the reasons of the
\* response, in order, and its filtered count; never the 'No video URI found'
\* failure, never a video URI.
C4_FilterSurfaced ==
    \A p \in Procs : ReportsFilter(p) =>
        LET g == loc[p].data.response.generateVideoResponse
            reasons == g.raiMediaFilteredReasons
            e == Last(errors[p]).error
            k == PosOf(e, "Reason(s): ")
            c == PosOf(e, "Filtered count: ")
        IN  /\ loc[p].state = "Filtered"
            /\ e[1] = "Video generation was blocked by safety filters. "
            /\ e # NoUriMessage
            /\ loc[p].video_uri = None /\ "download" \notin loc[p].calls
            /\ k > 0 /\ c > 0
            /\ IF reasons.isList
               THEN /\ \A i \in 1..Len(reasons.v) : e[k + 2 * i - 1] = reasons.v[i]
                    /\ \A i \in 1..(Len(reasons.v) - 1) : e[k + 2 * i] = ", "
                    /\ c = k + 2 * Len(reasons.v) + 1
               ELSE SubSeq(e, k + 1, c - 2) = reasons.v
            /\ ("raiMediaFilteredCount" \in DOMAIN g) =>
                   e[c + 1] = ToString(g.raiMediaFilteredCount)

\* a session ended on a response that carries both filter reasons, with a
\* count other than their number, and a generated sample
C4_Witness ==
    \E p \in Procs :
        /\ ReportsFilter(p) /\ loc[p].state = "Filtered"
        /\ "generatedSamples" \in DOMAIN loc[p].data.response.generateVideoResponse

\* the completed response of p's session has a video URI in the success path
HasSuccessUri(p) ==
    /\ "response" \in DOMAIN loc[p].data
    /\ "generateVideoResponse" \in DOMAIN loc[p].data.response
    /\ "generatedSamples" \in DOMAIN loc[p].data.response.generateVideoResponse
    /\ loc[p].data.response.generateVideoResponse.generatedSamples # << >>
    /\ "video" \in DOMAIN loc[p].data.response.generateVideoResponse.generatedSamples[1]
    /\ "uri" \in DOMAIN loc[p].data.response.generateVideoResponse.generatedSamples[1].video

\* C10: a session ends in Succeeded only if a poll response reported done and
\* carries a video URI in the first generated sample, and the URI handed to the
\* download is that one (the URL requested is it, or it with the key appended).
C10_SucceededOnlyWithUri ==
    \A p \in Procs :
        (loc[p].state \in {"Downloading", "Saving", "Succeeded"}) =>
            /\ Done(p)
            /\ HasSuccessUri(p)
            /\ loc[p].video_uri =
                   loc[p].data.response.generateVideoResponse.generatedSamples[1].video.uri
            /\ ("download" \in loc[p].calls) => StartsWith(loc[p].request_url, loc[p].video_uri)
            /\ (loc[p].state = "Succeeded") =>
                   /\ "download" \in loc[p].calls
                   /\ Last(results[p]).status = "completed"

\* a session succeeded on a response with two generated samples
C10_Witness ==
    \E p \in Procs :
        /\ loc[p].state = "Succeeded"
        /\ Len(loc[p].data.response.generateVideoResponse.generatedSamples) = 2

PollRequestStep(p) ==
    pc[p] = "poll" /\ pc'[p] # "poll" /\ loc'[p].state # "TimedOut"

\* C12: TimedOut is reported only when the elapsed wait has exceeded
\* max_wait_seconds and no poll response reported done; no poll request is
\* issued once the elapsed time exceeds max_wait_seconds; the timeout error is
\* not the error of the Failed or of the Filtered outcome.
C12_TimedOutOnlyAfterLimit ==
    /\ [](\A p \in Procs :
            /\ (loc[p].state = "TimedOut") =>
                   /\ loc[p].clock > MaxWaitSeconds * TicksPerSecond
                   /\ ~Done(p)
                   /\ Last(errors[p]).error =
                          <<"Video generation timeout after ", ToString(MaxWaitSeconds), " seconds">>
            /\ (loc[p].state \in {"Failed", "Filtered"}) =>
                   /\ Done(p)
                   /\ Last(errors[p]).error[1] # "Video generation timeout after ")
    /\ [][\A p \in Procs : PollRequestStep(p) =>
               /\ loc[p].clock <= MaxWaitSeconds * TicksPerSecond
               /\ loc'[p].state # "TimedOut"]_vars

\* a session polled, was answered not done, and timed out
C12_Witness ==
    \E p \in Procs :
        /\ loc[p].state = "TimedOut" /\ "poll" \in loc[p].calls
        /\ loc[p].data = [name |-> "op", done |-> FALSE]

\* C14: when the downloaded body is empty, download_video fails with the
\* empty-content error and no file is created or modified under the cache-key
\* name, so that a later lookup of the key is still a miss.
C14_EmptyDownloadSavesNothing ==
    /\ [](\A p \in Procs : (loc[p].video_content = << >>) =>
            /\ loc[p].state = "EmptyResult"
            /\ Last(errors[p]).error = <<"Video download returned empty content">>
            /\ <<"veo_">> \o loc[p].cache_key \o <<".mp4">> \notin DOMAIN files
            /\ IsNone(get_cached_video(cfg, files, loc[p].cache_key)))
    /\ [][\A p \in Procs : (pc[p] = "download" /\ loc'[p].video_content = << >>) =>
               (files' = files /\ Len(results'[p]) = Len(results[p]))]_vars

\* the first item of a batch ended on an empty download and the second
\* item, which has the same cache key, passed the lookup as a miss
C14_Witness ==
    \E p \in Procs :
        /\ args[p].image_path = <<UrlA, PubA>>
        /\ Len(errors[p]) = 1
        /\ errors[p][1].error = <<"Video download returned empty content">>
        /\ idx[p] = 2 /\ pc[p] = "submit" /\ files = << >>

\* the image paths of the items of a list of the report
Paths(list) == [i \in 1..Len(list) |-> list[i].imagePath]

RECURSIVE IsMerge(_, _, _)
\* c is an interleaving of a and b that keeps the order of each
IsMerge(a, b, c) ==
    IF c = << >> THEN a = << >> /\ b = << >>
    ELSE \/ a # << >> /\ Head(a) = Head(c) /\ IsMerge(Tail(a), b, Tail(c))
         \/ b # << >> /\ Head(b) = Head(c) /\ IsMerge(a, Tail(b), Tail(c))

\* the first words of the error an item that ended in a failure state reports
ReasonOf(state) ==
    CASE state = "LoadError" -> {"Source image not found: ", "Failed to download image from URL "}
      [] state = "SubmitError" -> {"Gemini API request failed: ", "Video generation failed: "}
      [] state = "PollError" -> {"Video operation polling failed: "}
      [] state = "TimedOut" -> {"Video generation timeout after "}
      [] state = "Filtered" -> {"Video generation was blocked by safety filters. "}
      [] state = "Failed" -> {"No video URI found in completed operation response"}
      [] state = "DownloadError" -> {"404 Client Error"}
      [] state = "EmptyResult" -> {"Video download returned empty content"}
      [] OTHER -> {}

\* C15: the items of a batch are processed one at a time in the order given,
\* each after the previous one reached its terminal result; a failed item is
\* reported in the errors list with its own reason, the others in the results
\* list, and a failure does not keep the remaining items from being processed.
C15_BatchInOrderFailuresIsolated ==
    /\ [](\A p \in Procs :
            /\ IsMerge(Paths(results[p]), Paths(errors[p]),
                       SubSeq(args[p].image_path, 1, idx[p] - 1))
            /\ (pc[p] \in {"report", "exit0"}) => idx[p] = Len(args[p].image_path) + 1
            /\ (pc[p] = "exit1" /\ errors[p] # << >>) => idx[p] = Len(args[p].image_path) + 1)
    /\ [][\A p \in Procs :
               /\ idx'[p] \in {idx[p], idx[p] + 1}
               /\ (idx'[p] = idx[p]) => (results'[p] = results[p] /\ errors'[p] = errors[p])
               /\ (idx'[p] = idx[p] + 1) =>
                      \/ /\ errors'[p] = errors[p]
                         /\ Len(results'[p]) = Len(results[p]) + 1
                         /\ Last(results'[p]).success
                         /\ loc'[p].state \in {"Cached", "Succeeded", "Processing"}
                      \/ /\ results'[p] = results[p]
                         /\ Len(errors'[p]) = Len(errors[p]) + 1
                         /\ ~Last(errors'[p]).success
                         /\ Last(errors'[p]).error[1] \in ReasonOf(loc'[p].state)
       ]_vars

\* the first item of a batch failed, the second was processed and succeeded
C15_Witness ==
    \E p \in Procs :
        /\ args[p].image_path = <<RelX, RelC>>
        /\ pc[p] = "exit1"
        /\ Paths(errors[p]) = <<RelX>> /\ Paths(results[p]) = <<RelC>>
        /\ results[p][1].status = "completed"

\* C16: the invocation exits with code 0 if and only if every requested
\* item succeeded, and with code 1 if any item failed, and also without a
\* credential or without a generator.
C16_ExitCode ==
    \A p \in Procs :
        /\ (pc[p] \in {"exit0", "exit1"}) =>
               ((pc[p] = "exit0") <=>
                    /\ errors[p] = << >>
                    /\ Len(results[p]) = Len(args[p].image_path)
                    /\ \A i \in 1..Len(results[p]) : results[p][i].success)
        /\ (pc[p] = "exit1" /\ errors[p] = << >>) => (results[p] = << >> /\ idx[p] = 1)
        /\ (~Truthy(args[p].api_key)) => pc[p] \in {"main", "exit1"}

\* a batch of two ended with code 0, the second item served from the cache
C16_Witness ==
    \E p \in Procs :
        /\ pc[p] = "exit0" /\ Len(results[p]) = 2
        /\ "embedUrl" \in DOMAIN results[p][1]
        /\ "cached" \in DOMAIN results[p][2]

\* what the poller of p has done: where it is, the elapsed time at which it
\* issues its next poll, the responses, calls, state and outcome
PollerView(p) ==
    [ pc |-> pc[p], elapsed |-> loc[p].clock, data |-> loc[p].data,
      state |-> loc[p].state, calls |-> loc[p].calls, video_uri |-> loc[p].video_uri,
      results |-> results[p], errors |-> errors[p] ]

\* C13: the progress display does not affect the poller: against the same
\* remote responses, the run with the display and the run without it poll at
\* the same elapsed times, go through the same states and end the same way.
C13_ProgressDisplayIsPresentationOnly ==
    [][(pc'[2] # pc[2]) => (PollerView(1) = PollerView(2))']_vars

\* both runs slept between polls and timed out; only run 1 displayed progress
C13_Witness ==
    /\ loc[1].state = "TimedOut" /\ loc[2].state = "TimedOut"
    /\ "Starting video generation..." \in {stderr[1][i] : i \in 1..Len(stderr[1])}
    /\ "Starting video generation..." \notin {stderr[2][i] : i \in 1..Len(stderr[2])}

-----------------------------------------------------------------------------
(* Properties of the cache (Spec) *)

\* C2: in every state, a file veo_<key>.mp4 that get_cached_video finds holds
\* the complete video downloaded for that key.
C2_NoPartialFileVisible ==
    \A p \in Procs :
        (Truthy(loc[p].cache_key) /\ ~IsNone(get_cached_video(cfg, files, loc[p].cache_key)))
            => <<VideoFilename(loc[p].cache_key), files[VideoFilename(loc[p].cache_key)]>>
                   \in hist.bodies

\* C3: on a cache hit nothing is submitted, polled or downloaded, and the
\* descriptor has the videoUrl and videoPath that the poll_video_operation
\* call which created the file returned, as has every other hit on that file.
C3_CacheHitIdempotent ==
    /\ \A p \in Procs : (loc[p].state = "Cached") =>
           /\ loc[p].calls = {}
           /\ Last(results[p]).cached
           /\ \E h \in hist.hits :
                  /\ h.filename = VideoFilename(loc[p].cache_key)
                  /\ h.videoUrl = Last(results[p]).videoUrl
                  /\ h.videoPath = Last(results[p]).videoPath
    /\ \A h \in hist.hits : \A d \in hist.created \cup hist.hits :
           (d.filename = h.filename) =>
               (h.videoUrl = d.videoUrl /\ h.videoPath = d.videoPath)

\* a request hit the file another request's poll_video_operation had
\* returned, under a configured base URL
C3_Witness ==
    \E p \in Procs :
        /\ loc[p].state = "Cached" /\ Truthy(cfg.base_url)
        /\ \E d \in hist.created : d.filename = VideoFilename(loc[p].cache_key)

\* the lookup of p is taken in this step
LookupStep(p) == pc[p] = "lookup" /\ pc'[p] # "lookup"

\* C9: get_cached_video returns a descriptor exactly when veo_<key>.mp4 is in
\* the video directory and nothing otherwise; the descriptor is marked cached
\* and completed, its videoUrl is baseUrl '/' relativePath with a base URL
\* and '/' relativePath without; the lookup changes no file.
C9_LookupContract ==
    [][\A p \in Procs : LookupStep(p) =>
        LET name == <<"veo_">> \o loc[p].cache_key \o <<".mp4">>
            exists == name \in DOMAIN files
            relativePath == _get_relative_video_path(cfg, name)
        IN  /\ files' = files
            /\ exists <=> (loc'[p].state = "Cached")
            /\ (~exists) => (pc'[p] = "submit" /\ results' = results /\ errors' = errors)
            /\ exists =>
                 /\ results'[p] = Append(results[p], Last(results'[p]))
                 /\ Last(results'[p]).cached
                 /\ Last(results'[p]).status = "completed"
                 /\ Last(results'[p]).videoPath = cfg.video_dir \o <<"/">> \o name
                 /\ Last(results'[p]).videoUrl =
                        IF cfg.base_url # None /\ cfg.base_url # << >>
                        THEN cfg.base_url \o <<"/">> \o relativePath
                        ELSE <<"/">> \o relativePath
    ]_vars

\* a lookup hit under a configured base URL while another key's file was not there
C9_Witness ==
    \E p, q \in Procs :
        /\ loc[p].state = "Cached" /\ Truthy(cfg.base_url)
        /\ pc[q] = "submit" /\ files # << >>

\* p's lookup is a miss and leads to the submission
LookupMisses(p) == Lookup(p) /\ pc'[p] = "submit"

\* C17: there is no per-key submission lock: a request whose lookup finds no
\* file goes on to submit, and its submission can be accepted, whatever
\* another request for the same key is doing; both may have submitted.
C17_NoSubmissionLock ==
    \A p \in Procs :
        /\ (pc[p] = "lookup"
            /\ <<"veo_">> \o loc[p].cache_key \o <<".mp4">> \notin DOMAIN files)
               => ENABLED LookupMisses(p)
        /\ (pc[p] = "submit") => ENABLED SubmitAccepted(p)

\* two requests for the same key have both passed the lookup as a miss and
\* both submitted, and no file for the key exists
C17_Witness ==
    \E p, q \in Procs :
        /\ p # q /\ loc[p].cache_key = loc[q].cache_key
        /\ loc[p].state = "Polling" /\ loc[q].state = "Polling"
        /\ "submit" \in loc[p].calls /\ "submit" \in loc[q].calls
        /\ loc[p].operationName # loc[q].operationName
        /\ <<"veo_">> \o loc[p].cache_key \o <<".mp4">> \notin DOMAIN files

\* file f is created, truncated or written in this step
Written(f) == f \in DOMAIN files' /\ (f \notin DOMAIN files \/ files'[f] # files[f])

\* C18: the file save_video writes for a request is veo_<its cache key>.mp4;
\* a step that creates, truncates or writes a file is a step of a request
\* that has the key in the file's name, never of a request with another key.
C18_WritesOnlyOwnFile ==
    [][/\ DOMAIN files \subseteq DOMAIN files'
       /\ \A f \in DOMAIN files' : Written(f) =>
            \E p \in Procs :
                /\ pc[p] \in {"open", "write"}
                /\ (loc'[p] # loc[p] \/ pc'[p] # pc[p])
                /\ \A q \in Procs \ {p} : loc'[q] = loc[q] /\ pc'[q] = pc[q]
                /\ f = <<"veo_">> \o loc[p].cache_key \o <<".mp4">>
                /\ \A g \in DOMAIN files \ {f} : files'[g] = files[g]
    ]_vars

\* two requests with different keys have saved, each its own file
C18_Witness ==
    \E p, q \in Procs :
        /\ loc[p].cache_key # loc[q].cache_key
        /\ loc[p].state = "Succeeded" /\ loc[q].state = "Succeeded"
        /\ <<"veo_">> \o loc[p].cache_key \o <<".mp4">> \in DOMAIN files
        /\ <<"veo_">> \o loc[q].cache_key \o <<".mp4">> \in DOMAIN files
        /\ Cardinality(DOMAIN files) = 2

-----------------------------------------------------------------------------
(* Properties of the proxy (ProxySpec) *)

\* the request carries the configured secret as a bearer token
BearerSecret == Get(proxy.headers, "Authorization", << >>) = <<"Bearer ">> \o Secret

\* the request carries the configured secret in the X-API-Key header
HeaderSecret == Get(proxy.headers, "X-API-Key", << >>) = Secret

\* the request has no header whose value is or ends with the configured secret
NoSecret ==
    \A h \in DOMAIN proxy.headers :
        proxy.headers[h] # Secret /\ proxy.headers[h] # <<"Bearer ">> \o Secret

\* the handler has decided whether the request is authenticated
Decided == proxy.phase \in {"running", "responded"}

ReportedFailures(p) ==
    IF errors[p] # << >>
    THEN {errors[p][i].error : i \in 1..Len(errors[p])}
    ELSE {SubSeq(stdout[p], 6, Len(stdout[p]) - 2)}

\* C20: whenever the tool run behind the proxy exits with a code other than
\* 0, the envelope has success=false and an error field that contains the
\* failure message the tool reported.
C20_FailureMessagePreserved ==
    (proxy.phase = "responded" /\ pc[1] = "exit1") =>
        /\ proxy.status = 200
        /\ ~proxy.envelope.success
        /\ \A msg \in ReportedFailures(1) : Contains(proxy.envelope.error, msg)

\* the request passed authentication
Authenticated == authenticate(proxy.headers, proxy.api_key)

\* the input of the request is malformed: no body, no JSON, no JSON object,
\* or an object without image_path or without prompt
Malformed ==
    \/ proxy.body.kind # "json"
    \/ proxy.body.type # "object"
    \/ "image_path" \notin DOMAIN proxy.body.data
    \/ "prompt" \notin DOMAIN proxy.body.data

\* C21: every POST is answered with exactly one of 401 (authentication
\* fails, whatever the body), 400 (malformed input: empty body, invalid JSON,
\* body that is not a JSON object, missing image_path or prompt), 500, or 200
\* with the {success, data|error} envelope; the tool is started only on the
\* 200 path.
C21_OneAnswerPerPost ==
    /\ proxy.phase = "responded" =>
          /\ proxy.status \in {401, 400, 500, 200}
          /\ (proxy.status = 401) <=> ~Authenticated
          /\ Authenticated => ((proxy.status = 400) <=> Malformed)
          /\ (proxy.status = 200) =>
                 IF proxy.envelope.success THEN "data" \in DOMAIN proxy.envelope
                 ELSE "error" \in DOMAIN proxy.envelope
          /\ (proxy.status # 200) => proxy.envelope = NoneDict
    /\ (pc[1] # "off") => (proxy.phase = "running" \/ proxy.status = 200)

-----------------------------------------------------------------------------
(* Properties of the submitted request (CliSpec) *)

\* the item p is working on has two images, automatic references are on, and
\* its prompt has none of the reference keywords and neither filename stem
NeedsContext(p) ==
    /\ HasSecond(p)
    /\ ~args[p].no_auto_reference
    /\ \A k \in ReferenceKeywords(
                   _get_image_reference_name(args[p].image_path[idx[p]]),
                   _get_image_reference_name(args[p].second_image)) :
           ~Contains(lower(args[p].prompt), k)

-----------------------------------------------------------------------------
(* Properties of the download (CliSpec) *)

\* C23: download_video appends the credential as the query parameter key
\* (after '?' when the URI has no query, after '&' otherwise) exactly when
\* the host of the video URI is the API host and the URI has no parameter
\* key; every other URI is requested unchanged.
C23_KeyAppendedForApiHostOnly ==
    \A p \in Procs : "download" \in loc[p].calls =>
        LET video_uri == loc[p].video_uri
        IN  loc[p].request_url =
                IF Host(video_uri) = ApiHost /\ ~HasKeyParam(video_uri)
                THEN video_uri
                     \o (IF \E i \in 1..Len(video_uri) : video_uri[i] = "?"
                         THEN <<"&">> ELSE <<"?">>)
                     \o <<"key=">> \o args[p].api_key
                ELSE video_uri

-----------------------------------------------------------------------------
(* Properties of the poll loop's pace (CliSpec) *)

\* C24: the wait between two poll requests of a session is always
\* poll_interval_seconds, neither growing nor shrinking from one iteration
\* to the next, and a poll request is followed by a wait only when its
\* response did not report done.
C24_FixedPollInterval ==
    [][\A p \in Procs :
          /\ (pc[p] = "sleep" /\ pc'[p] = "poll") =>
                 loc'[p].clock =
                     Tick(loc[p].clock + PollIntervalSeconds * TicksPerSecond)
          /\ (pc[p] = "poll" /\ pc'[p] = "sleep") => ~Get(loc'[p].data, "done", FALSE)
          /\ (pc[p] = "poll" /\ "poll" \in loc'[p].calls /\ Get(loc'[p].data, "done", FALSE))
                 => pc'[p] \notin {"sleep", "poll"}
       ]_vars

\* a session is about to poll for the third time, having waited twice
C24_Witness ==
    /\ pc[1] = "poll" /\ "poll" \in loc[1].calls
    /\ loc[1].clock >= 2 * PollIntervalSeconds * TicksPerSecond
    /\ loc[1].clock <= MaxWaitTicks

-----------------------------------------------------------------------------
(* Properties of the video directory (CliSpec) *)

\* the states a session ends in without a video
FailureStates ==
    {"Filtered", "Failed", "TimedOut", "PollError", "DownloadError", "EmptyResult"}

\* C25: a file veo_<key>.mp4 exists only if a poll session for that key
\* ended on a completed response with a video and its download returned a
\* body that is not empty; a session that ends in Filtered, Failed, TimedOut,
\* a poll transport error or a download error, and a request run without
\* --sync, neither creates nor changes a file.
C25_FilesOnlyFromSucceededSessions ==
    [][/\ (files' # files) =>
             \E p \in Procs :
                 /\ args[p].sync
                 /\ Done(p) /\ HasSuccessUri(p) /\ ~ReportsFilter(p)
                 /\ "download" \in loc[p].calls
                 /\ loc[p].video_content \notin {None, << >>}
                 /\ loc'[p].state \notin FailureStates
                 /\ \A f \in DOMAIN files' :
                        f # VideoFilename(loc[p].cache_key) =>
                            f \in DOMAIN files /\ files'[f] = files[f]
       /\ \A p \in Procs :
             (loc'[p].state \in FailureStates \cup {"Processing", "SubmitError", "LoadError"})
                 => /\ files' = files
                    /\ loc'[p].video_content \in {None, << >>}
                    /\ loc'[p].wpos = 0
      ]_vars

\* of the items of a batch one has failed and one has been saved
C25_Witness ==
    /\ Len(errors[1]) >= 1 /\ Len(results[1]) >= 1
    /\ DOMAIN files # {}
    /\ \E p \in Procs : loc[p].state = "Succeeded"

-----------------------------------------------------------------------------
(* Properties of the credential (CliSpec) *)

\* C26: the API credential is sent to the API host only: a request of the
\* download, the first or one following a redirect, that goes to another
\* host carries the credential neither in a header nor in its query string.
C26_CredentialOnlyToApiHost ==
    \A p \in Procs : "download" \in loc[p].calls =>
        \A url \in {loc[p].request_url} \cup {loc[p].redirects[i] : i \in 1..Len(loc[p].redirects)} :
            Host(url) # ApiHost =>
                /\ \A h \in DOMAIN loc[p].request_headers :
                       loc[p].request_headers[h] # args[p].api_key
                /\ ~Contains(url, args[p].api_key)

-----------------------------------------------------------------------------
(* Properties of the key while the sources change (ChangeSpec) *)

\* C27: the image bytes hashed into the cache key of a request are the
\* bytes submitted to the remote service, also when an image source changes
\* between the read of _load_image and the read of generate_cache_key.
C27_HashedBytesAreSubmittedBytes ==
    \A p \in Procs : "submit" \in loc[p].calls =>
        loc[p].cache_key =
            md5(md5(loc[p].payload.image) \o <<":">>
                \o (IF loc[p].payload.image2 = None THEN << >> ELSE md5(loc[p].payload.image2))
                \o <<":">> \o loc[p].payload.prompt
                \o <<":">> \o loc[p].payload.aspectRatio)

-----------------------------------------------------------------------------
(* Properties of the hashed string (KeySpec) *)

\* C28: the string generate_cache_key hashes is an injective encoding of its
\* fields: for the same images two different (prompt, aspect ratio) pairs
\* never give the same string, and so, the digest being collision-free,
\* never the same key, also when a prompt or ratio contains ':'.
C28_HashedStringInjective ==
    \A p, q \in Procs :
        ( /\ HasKey(p) /\ HasKey(q)
          /\ PrimaryBytes(p) = PrimaryBytes(q)
          /\ SecondaryBytes(p) = SecondaryBytes(q)
          /\ <<PromptOf(p), RatioOf(p)>> # <<PromptOf(q), RatioOf(q)>> )
        => /\ Flatten(CacheData(md5(PrimaryBytes(p)), SecondField(p), PromptOf(p), RatioOf(p)))
              # Flatten(CacheData(md5(PrimaryBytes(q)), SecondField(q), PromptOf(q), RatioOf(q)))
           /\ loc[p].cache_key # loc[q].cache_key

-----------------------------------------------------------------------------
(* Properties of the batch report (CliSpec) *)

\* C29: after the processing loop every requested item is in exactly one of
\* the results list and the errors list, in input order within each, so
\* that succeeded + failed = total, and the success flag of the batch report
\* is true exactly when the errors list is empty.
C29_ReportAccountsForEveryItem ==
    \A p \in Procs :
        (pc[p] \in {"exit0", "exit1"} /\ idx[p] = Len(args[p].image_path) + 1) =>
            /\ IsMerge(Paths(results[p]), Paths(errors[p]), args[p].image_path)
            /\ Len(results[p]) + Len(errors[p]) = Len(args[p].image_path)
            /\ \A i \in 1..Len(results[p]) : results[p][i].success
            /\ \A i \in 1..Len(errors[p]) : ~errors[p][i].success
            /\ Len(args[p].image_path) > 1 =>
                   /\ SubSeq(stdout[p], 1, 2) = <<"{", "\"success\": ">>
                   /\ (stdout[p][3] = "true") <=> (errors[p] = << >>)
                   /\ stdout[p][3] \in {"true", "false"}
                   /\ stdout[p][6] = ToString(Len(args[p].image_path))
                   /\ stdout[p][9] = ToString(Len(results[p]))
                   /\ stdout[p][12] = ToString(Len(errors[p]))

\* a batch of two has been reported with one item in each list
C29_Witness ==
    /\ pc[1] = "exit1" /\ Len(args[1].image_path) = 2
    /\ Len(results[1]) = 1 /\ Len(errors[1]) = 1
    /\ stdout[1][3] = "false"

-----------------------------------------------------------------------------
(* Properties of a failed poll request (CliSpec) *)

\* C30: one poll request that fails at transport level ends the poll
\* session at once with the 'polling failed' error, without a retry or a
\* further poll, also when the elapsed time is still below max_wait_seconds;
\* the outcome is not the one of a timeout.
C30_PollFailureEndsSession ==
    [][\A p \in Procs :
          (pc[p] \in {"poll", "sleep"} /\ loc'[p].state = "PollError") =>
              /\ pc[p] = "poll" /\ loc[p].state = "Polling"
              /\ loc[p].clock <= MaxWaitSeconds * TicksPerSecond
              /\ pc'[p] \in {"item", "report"} /\ idx'[p] = idx[p] + 1
              /\ results'[p] = results[p]
              /\ errors'[p] = Append(errors[p],
                     [imagePath |-> args[p].image_path[idx[p]], success |-> FALSE,
                      error |-> Last(errors'[p]).error])
              /\ Last(errors'[p]).error[1] = "Video operation polling failed: "
              /\ Last(errors'[p]).error[1] # "Video generation timeout after "
              /\ files' = files
       ]_vars

\* the first poll request of a session failed at once
C30_Witness ==
    /\ loc[1].state = "PollError" /\ loc[1].clock = 0
    /\ Len(errors[1]) = 1 /\ "poll" \in loc[1].calls

====
